---- MODULE Spec2Model ----
(***************************************************************************)
(* Model of the Avalon A1126pro firmware analysis tools.                   *)
(*                                                                         *)
(*   src/analysis/decompiler.py        A1126ProDecompiler                  *)
(*   src/analysis/firmware_analyzer.py K210FirmwareAnalyzer                *)
(*   src/analysis/disassembler.py      RiscVDisassembler                   *)
(*                                                                         *)
(* A behaviour is the life of one tool object over one firmware image:     *)
(* Spec is a run of A1126ProDecompiler, SpecAnalyzer a run of              *)
(* K210FirmwareAnalyzer, SpecDisassembler a run of RiscVDisassembler.      *)
(* data and strings are the object's fields of the same names.             *)
(*                                                                         *)
(* Text is a sequence of code points, a byte string a sequence of byte     *)
(* values; a Python dict is the sequence of its items in insertion order.  *)
(***************************************************************************)
EXTENDS Integers, Sequences, FiniteSets, TLC

VARIABLES
    data,            \* self.data: the firmware image
    strings,         \* self.strings: dict offset -> text
    string_xrefs,    \* A1126ProDecompiler.string_xrefs: dict text -> [offset]
    target_strings,  \* argument of the last find_function_by_strings call
    matches,         \* its local `matches` (after the sort) when it returned
    clusters,        \* its local `clusters` when it returned
    results,         \* its return value
    matched,         \* return value of the last match_known_functions call
    min_length,      \* least run length of the extraction behind `strings`:
                     \* extract_strings' argument, 4 in the decompiler
    called,          \* the methods called on the object since construction
    functions,       \* return value of the last find_function_boundaries call
    run,             \* the generate_annotated_disassembly call in progress
    temp_file,       \* the file /tmp/k210_section.bin
    workers,         \* threads inside disassemble_range
    params,          \* return value of the last extract_avalon10_parameters call
    config,          \* return value of the last find_avalon10_config call
    previous         \* history: what the extract_strings call before the last left

\* the state of RiscVDisassembler and of its environment
disasmVars == <<functions, run, temp_file, workers>>

vars == <<data, strings, string_xrefs, target_strings, matches, clusters,
          results, matched, min_length, called, disasmVars, params, config, previous>>

-----------------------------------------------------------------------------
(* Bounds of the model.                                                    *)

MaxDenseLen == 4      \* longest byte-by-byte enumerated image
MaxMinLength == 3     \* largest min_length passed to extract_strings
MaxHits == 2          \* most text runs placed in a laid-out image
MaxSpread == 6        \* text runs in the widely spread image

-----------------------------------------------------------------------------
(* Values of the fields no method has set yet.                             *)

\* no generate_annotated_disassembly call has been made
NoRun ==
    [pc |-> "idle", func_bounds |-> <<>>, backend |-> <<>>, funcs |-> <<>>,
     printed |-> <<>>, boot |-> <<>>, output |-> <<>>]

\* the file does not exist.  ino numbers the files created at the path so
\* far; content is the content of the file the path names.
Absent == [exists |-> FALSE, ino |-> 0, content |-> <<>>]

\* no extract_strings call yet: the history `previous` before the second call
NoCall == [called |-> FALSE, strings |-> <<>>, min_length |-> 0]

-----------------------------------------------------------------------------
(* Byte buffers.  An image is its length and the segments of it that are   *)
(* written out byte by byte; every byte outside a segment is the filler    *)
(* byte 0.                                                                 *)

ByteAt(d, i) ==
    IF \E k \in 1..Len(d.segs) :
          d.segs[k].at <= i /\ i < d.segs[k].at + Len(d.segs[k].bytes)
    THEN LET k == CHOOSE k \in 1..Len(d.segs) :
                     d.segs[k].at <= i /\ i < d.segs[k].at + Len(d.segs[k].bytes)
         IN  d.segs[k].bytes[i - d.segs[k].at + 1]
    ELSE 0

-----------------------------------------------------------------------------
(* Python dict with insertion order: assigning to an existing key keeps    *)
(* the key's position and replaces its value.                              *)

DictHas(dict, k) == \E n \in 1..Len(dict) : dict[n].key = k

DictSet(dict, k, v) ==
    IF DictHas(dict, k)
    THEN [n \in 1..Len(dict) |->
             IF dict[n].key = k THEN [key |-> k, val |-> v] ELSE dict[n]]
    ELSE Append(dict, [key |-> k, val |-> v])

DictGet(dict, k) == dict[CHOOSE n \in 1..Len(dict) : dict[n].key = k].val

-----------------------------------------------------------------------------
(* String extraction.                                                      *)

\* the printable predicate of the scan loop: `32 <= b < 127`, and for
\* extract_strings also `b in (9, 10, 13)`
Qualifies(b, whitespace) ==
    (32 <= b /\ b < 127) \/ (whitespace /\ b \in {9, 10, 13})

\* bytes.decode('ascii') / bytes.decode('utf-8') of a run: a byte below 128
\* decodes to the code point of the same value; any other byte raises here.
\* (The two codecs differ only on bytes >= 128, which the loop never puts
\* into `current`.)
Decodes(bytes) == \A k \in 1..Len(bytes) : bytes[k] < 128

Decode(bytes) == [k \in 1..Len(bytes) |-> bytes[k]]

\* the flush test of the else branch: `len(current) >= min_length`
\* (variant: one byte short of it)
LongEnoughMutant(current, min_len) == Len(current) + 1 >= min_len

LongEnough(current, min_len) == Len(current) >= min_len

\* One iteration of `for i, b in enumerate(self.data)`.
\* st = [i, strings, current, start]: the loop index and the three locals.
ScanStep(st, d, min_len, whitespace) ==
    LET b == ByteAt(d, st.i) IN
    IF Qualifies(b, whitespace)
    THEN [st EXCEPT !.i = st.i + 1,
                    !.start = IF st.current = <<>> THEN st.i ELSE st.start,
                    !.current = Append(st.current, b)]
    ELSE [st EXCEPT !.i = st.i + 1,
                    !.strings =
                        IF LongEnough(st.current, min_len) /\ Decodes(st.current)
                        THEN DictSet(st.strings, st.start, Decode(st.current))
                        ELSE st.strings,
                    !.current = <<>>]

\* The iterations for the indices st.i .. hi-1, in ascending order.  The
\* index range is halved only to keep the evaluation depth logarithmic in
\* the image length; every index is visited once, in the loop's order.
RECURSIVE ScanTo(_, _, _, _, _)
ScanTo(st, d, hi, min_len, whitespace) ==
    IF st.i >= hi THEN st
    ELSE IF hi - st.i = 1 THEN ScanStep(st, d, min_len, whitespace)
    ELSE ScanTo(ScanTo(st, d, (st.i + hi) \div 2, min_len, whitespace),
                d, hi, min_len, whitespace)

\* The whole loop; the function returns `strings` right after it.
ScanLoop(d, min_len, whitespace) ==
    ScanTo([i |-> 0, strings |-> <<>>, current |-> <<>>, start |-> 0],
           d, d.len, min_len, whitespace).strings

\* K210FirmwareAnalyzer.extract_strings(min_length)
extract_strings(d, min_len) == ScanLoop(d, min_len, TRUE)

\* A1126ProDecompiler._extract_all_strings(): the loop with `>= 4` and
\* without the whitespace bytes (variant: the analyzer's default of 8)
_extract_all_strings_Mutant(d) == ScanLoop(d, 8, FALSE)

_extract_all_strings(d) == ScanLoop(d, 4, FALSE)

-----------------------------------------------------------------------------
(* Text helpers.                                                           *)

\* str.lower() on ASCII text: only A-Z change
Lower(s) == [k \in 1..Len(s) |-> IF 65 <= s[k] /\ s[k] <= 90 THEN s[k] + 32 ELSE s[k]]

\* `sub in s` for two strings
Contains(sub, s) ==
    \E k \in 0..(Len(s) - Len(sub)) :
        \A j \in 1..Len(sub) : s[k + j] = sub[j]

-----------------------------------------------------------------------------
(* Confidence values.  len(cluster) / len(target_strings) is kept as the   *)
(* exact fraction; comparisons cross-multiply (denominators are positive). *)
(* For the small integers involved the float quotient orders and equals    *)
(* exactly as the fraction does.                                           *)

Frac(n, d) == [num |-> n, den |-> d]

RatLT(x, y) == x.num * y.den < y.num * x.den

\* min(confidence, 1.0)
Min1(c) == IF RatLT(Frac(1, 1), c) THEN Frac(1, 1) ELSE c

-----------------------------------------------------------------------------
(* A1126ProDecompiler: cross-reference index.                              *)

\* xrefs.setdefault(s, []).append(addr)
\* (variant: the offset is put in front)
XrefsAddMutant(xrefs, s, addr) ==
    DictSet(xrefs, s, <<addr>> \o (IF DictHas(xrefs, s) THEN DictGet(xrefs, s) ELSE <<>>))

XrefsAdd(xrefs, s, addr) ==
    DictSet(xrefs, s, Append(IF DictHas(xrefs, s) THEN DictGet(xrefs, s) ELSE <<>>, addr))

\* `for addr, s in self.strings.items()` from item n on
RECURSIVE XrefsLoop(_, _, _)
XrefsLoop(xrefs, strs, n) ==
    IF n > Len(strs) THEN xrefs
    ELSE XrefsLoop(XrefsAdd(xrefs, strs[n].val, strs[n].key), strs, n + 1)

_build_string_xrefs(strs) == XrefsLoop(<<>>, strs, 1)

-----------------------------------------------------------------------------
(* A1126ProDecompiler: signature matching.                                 *)

KNOWN_SIGNATURES ==
    <<
       [name |-> "avalon10_init",
        strings |-> <<
          \* "avalon10"
          <<97, 118, 97, 108, 111, 110, 49, 48>>,
          \* "init"
          <<105, 110, 105, 116>>,
          \* "device"
          <<100, 101, 118, 105, 99, 101>>
        >>],
       [name |-> "avalon10_scanhash",
        strings |-> <<
          \* "avalon10_scanhash"
          <<97, 118, 97, 108, 111, 110, 49, 48,
            95, 115, 99, 97, 110, 104, 97, 115, 104>>,
          \* "hash"
          <<104, 97, 115, 104>>
        >>],
       [name |-> "avalon10_statline_before",
        strings |-> <<
          \* "avalon10_statline_before"
          <<97, 118, 97, 108, 111, 110, 49, 48, 95, 115, 116, 97,
            116, 108, 105, 110, 101, 95, 98, 101, 102, 111, 114, 101>>
        >>],
       [name |-> "avalon10_prepare",
        strings |-> <<
          \* "avalon10_prepare"
          <<97, 118, 97, 108, 111, 110, 49, 48,
            95, 112, 114, 101, 112, 97, 114, 101>>
        >>],
       [name |-> "pool_active",
        strings |-> <<
          \* "Pool"
          <<80, 111, 111, 108>>,
          \* "active"
          <<97, 99, 116, 105, 118, 101>>,
          \* "stratum"
          <<115, 116, 114, 97, 116, 117, 109>>
        >>],
       [name |-> "submit_nonce",
        strings |-> <<
          \* "submit"
          <<115, 117, 98, 109, 105, 116>>,
          \* "nonce"
          <<110, 111, 110, 99, 101>>,
          \* "share"
          <<115, 104, 97, 114, 101>>
        >>],
       [name |-> "sha256_transform",
        strings |-> <<
          \* "sha256"
          <<115, 104, 97, 50, 53, 54>>
        >>],
       [name |-> "lwip_init",
        strings |-> <<
          \* "lwIP"
          <<108, 119, 73, 80>>,
          \* "init"
          <<105, 110, 105, 116>>,
          \* "netif"
          <<110, 101, 116, 105, 102>>
        >>],
       [name |-> "vTaskCreate",
        strings |-> <<
          \* "Task"
          <<84, 97, 115, 107>>,
          \* "Create"
          <<67, 114, 101, 97, 116, 101>>,
          \* "FreeRTOS"
          <<70, 114, 101, 101, 82, 84, 79, 83>>
        >>],
       [name |-> "spi_send_data",
        strings |-> <<
          \* "spi"
          <<115, 112, 105>>,
          \* "send"
          <<115, 101, 110, 100>>,
          \* "data"
          <<100, 97, 116, 97>>
        >>],
       [name |-> "gpio_set_pin",
        strings |-> <<
          \* "gpio"
          <<103, 112, 105, 111>>,
          \* "pin"
          <<112, 105, 110>>
        >>],
       [name |-> "uart_send",
        strings |-> <<
          \* "uart"
          <<117, 97, 114, 116>>,
          \* "send"
          <<115, 101, 110, 100>>
        >>]
    >>

ProximityWindow == 4096   \* 0x1000

MaxResults == 5           \* the [:5] of the return

\* the confidence a candidate must exceed: 0.3
Threshold == Frac(3, 10)

\* `if ts_lower in s.lower()`
\* (variant: the test is left out)
KeyHitMutant(ts, key) == TRUE

KeyHit(ts, key) == Contains(Lower(ts), Lower(key))

\* `for s, addrs in self.string_xrefs.items()` from item n on, for one ts
RECURSIVE KeyLoop(_, _, _)
KeyLoop(ts, xrefs, n) ==
    IF n > Len(xrefs) THEN <<>>
    ELSE (IF KeyHit(ts, xrefs[n].key) THEN xrefs[n].val ELSE <<>>)
         \o KeyLoop(ts, xrefs, n + 1)

\* `for ts in target_strings` from item n on: the appended addresses
RECURSIVE TargetLoop(_, _, _)
TargetLoop(tsl, xrefs, n) ==
    IF n > Len(tsl) THEN <<>>
    ELSE KeyLoop(tsl[n], xrefs, 1) \o TargetLoop(tsl, xrefs, n + 1)

\* list.sort() on integers
RECURSIVE SortAsc(_)
SortAsc(seq) ==
    IF seq = <<>> THEN <<>>
    ELSE LET front == SortAsc(SubSeq(seq, 1, Len(seq) - 1))
             x == seq[Len(seq)]
             below == Cardinality({k \in 1..Len(front) : front[k] <= x})
         IN  SubSeq(front, 1, below) \o <<x>> \o SubSeq(front, below + 1, Len(front))

\* `if addr - current_cluster[-1] < 0x1000`
\* (variant: `<=`)
SameClusterMutant(prev, addr) == addr - prev <= ProximityWindow

SameCluster(prev, addr) == addr - prev < ProximityWindow

\* `for addr in matches[1:]` from matches[n] on (1-based), then the
\* final clusters.append(current_cluster)
RECURSIVE ClusterLoop(_, _, _, _)
ClusterLoop(cls, current_cluster, ms, n) ==
    IF n > Len(ms) THEN Append(cls, current_cluster)
    ELSE IF SameCluster(current_cluster[Len(current_cluster)], ms[n])
         THEN ClusterLoop(cls, Append(current_cluster, ms[n]), ms, n + 1)
         ELSE ClusterLoop(Append(cls, current_cluster), <<ms[n]>>, ms, n + 1)

\* center = cluster[len(cluster)//2]   (0-based index, 1-based here)
\* (variant: (len(cluster) - 1)//2)
CenterMutant(cluster) == cluster[((Len(cluster) - 1) \div 2) + 1]

Center(cluster) == cluster[(Len(cluster) \div 2) + 1]

\* min(len(cluster) / len(target_strings), 1.0)
\* (variant: without the min)
ConfidenceMutant(cluster, tsl) == Frac(Len(cluster), Len(tsl))

Confidence(cluster, tsl) == Min1(Frac(Len(cluster), Len(tsl)))

\* `for cluster in clusters: results.append((center, min(confidence, 1.0)))`
ClusterResults(cls, tsl) ==
    [k \in 1..Len(cls) |->
        [addr |-> Center(cls[k]), confidence |-> Confidence(cls[k], tsl)]]

\* sorted(results, key=lambda x: -x[1]): stable, descending confidence
\* (variant: ascending)
RECURSIVE SortedByConfidenceMutant(_)
SortedByConfidenceMutant(res) ==
    IF res = <<>> THEN <<>>
    ELSE LET front == SortedByConfidenceMutant(SubSeq(res, 1, Len(res) - 1))
             x == res[Len(res)]
             ahead == Cardinality({k \in 1..Len(front) :
                                     ~ RatLT(x.confidence, front[k].confidence)})
         IN  SubSeq(front, 1, ahead) \o <<x>> \o SubSeq(front, ahead + 1, Len(front))

RECURSIVE SortedByConfidence(_)
SortedByConfidence(res) ==
    IF res = <<>> THEN <<>>
    ELSE LET front == SortedByConfidence(SubSeq(res, 1, Len(res) - 1))
             x == res[Len(res)]
             ahead == Cardinality({k \in 1..Len(front) :
                                     ~ RatLT(front[k].confidence, x.confidence)})
         IN  SubSeq(front, 1, ahead) \o <<x>> \o SubSeq(front, ahead + 1, Len(front))

\* seq[:n]
Prefix(seq, n) == SubSeq(seq, 1, IF Len(seq) < n THEN Len(seq) ELSE n)

\* A1126ProDecompiler.find_function_by_strings(target_strings): its locals
\* `matches` and `clusters` at the return, and the value returned.
find_function_by_strings(tsl, xrefs) ==
    LET ms == SortAsc(TargetLoop(tsl, xrefs, 1)) IN
    IF ms = <<>>
    THEN [matches |-> <<>>, clusters |-> <<>>, results |-> <<>>]
    ELSE LET cls == ClusterLoop(<<>>, <<ms[1]>>, ms, 2) IN
         [matches |-> ms,
          clusters |-> cls,
          results |-> Prefix(SortedByConfidence(ClusterResults(cls, tsl)), MaxResults)]

\* `if confidence > 0.3`
\* (variant: 0.5)
PassesThresholdMutant(confidence) == RatLT(Frac(1, 2), confidence)

PassesThreshold(confidence) == RatLT(Threshold, confidence)

\* `for addr, confidence in candidates: if confidence > 0.3: ...; break`:
\* what the loop appends to `matched` for one signature
BestMatch(sig, candidates) ==
    LET above == {k \in 1..Len(candidates) : PassesThreshold(candidates[k].confidence)} IN
    IF above = {} THEN <<>>
    ELSE LET k == CHOOSE k \in above : \A j \in above : k <= j IN
         <<[name |-> sig.name,
            address |-> candidates[k].addr,
            confidence |-> candidates[k].confidence]>>

\* `for sig in self.KNOWN_SIGNATURES` from signature n on
RECURSIVE SignatureLoop(_, _)
SignatureLoop(xrefs, n) ==
    IF n > Len(KNOWN_SIGNATURES) THEN <<>>
    ELSE BestMatch(KNOWN_SIGNATURES[n],
                   find_function_by_strings(KNOWN_SIGNATURES[n].strings, xrefs).results)
         \o SignatureLoop(xrefs, n + 1)

\* A1126ProDecompiler.match_known_functions()
match_known_functions(xrefs) == SignatureLoop(xrefs, 1)

-----------------------------------------------------------------------------
(* A1126ProDecompiler over laid-out images: text runs written at chosen    *)
(* offsets into filler bytes.                                              *)

\* the text runs written into laid-out images
LayoutWords ==
    { \* "avalon10_init"
      <<97, 118, 97, 108, 111, 110, 49, 48, 95, 105, 110, 105, 116>>,
      \* "Device"
      <<68, 101, 118, 105, 99, 101>> }

\* distances between the starts of consecutive text runs
LayoutGaps == {100, 4095, 4096}

\* start offset of the k-th text run: the first is at 100
RECURSIVE LayoutOffset(_, _)
LayoutOffset(gaps, k) == IF k = 1 THEN 100 ELSE LayoutOffset(gaps, k - 1) + gaps[k - 1]

\* words[k] at LayoutOffset(gaps, k), and `tail` filler bytes after the last
Layout(words, gaps, tail) ==
    LET n == Len(words) IN
    [len |-> IF n = 0 THEN tail
             ELSE LayoutOffset(gaps, n) + Len(words[n]) + tail,
     segs |-> [k \in 1..n |-> [at |-> LayoutOffset(gaps, k), bytes |-> words[k]]]]

LaidOutImages ==
    UNION { { Layout(words, gaps, tail) :
                words \in [1..n -> LayoutWords],
                gaps \in [1..(n - 1) -> LayoutGaps],
                tail \in {0, 1} } : n \in 0..MaxHits }

\* "init" at the offsets 100, 200 and 5000
ExampleImage ==
    [len |-> 5005,
     segs |-> << [at |-> 100, bytes |-> <<105, 110, 105, 116>>],
                 [at |-> 200, bytes |-> <<105, 110, 105, 116>>],
                 [at |-> 5000, bytes |-> <<105, 110, 105, 116>>] >>]

\* MaxSpread text runs 4096 bytes apart, "Device" and "avalon10_init" in turn
SpreadImage ==
    [len |-> 4096 * (MaxSpread - 1) + 14,
     segs |-> [k \in 1..MaxSpread |->
                 [at |-> 4096 * (k - 1),
                  bytes |-> IF k % 2 = 1
                            THEN <<68, 101, 118, 105, 99, 101>>
                            ELSE <<97, 118, 97, 108, 111, 110, 49, 48,
                                   95, 105, 110, 105, 116>>]]]

\* 64 KiB, "avalon10_init" at 0x1000 and "device" at 0x1050
EndToEndImage ==
    [len |-> 65536,
     segs |-> << [at |-> 4096,
                  bytes |-> <<97, 118, 97, 108, 111, 110, 49, 48,
                              95, 105, 110, 105, 116>>],
                 [at |-> 4176,
                  bytes |-> <<100, 101, 118, 105, 99, 101>>] >>]

\* "init" at the offsets 100, 4195 and 8290, each 4095 after the one before
ChainImage ==
    [len |-> 8295,
     segs |-> << [at |-> 100, bytes |-> <<105, 110, 105, 116>>],
                 [at |-> 4195, bytes |-> <<105, 110, 105, 116>>],
                 [at |-> 8290, bytes |-> <<105, 110, 105, 116>>] >>]

DecompilerImages == LaidOutImages \cup {ExampleImage, SpreadImage, EndToEndImage, ChainImage}

\* the argument lists find_function_by_strings is called with: those of the
\* catalog, the empty list, one upper-case string and a list of four
TargetLists ==
    { KNOWN_SIGNATURES[k].strings : k \in 1..Len(KNOWN_SIGNATURES) }
    \cup { <<>>,
           \* ["INIT"]
           << <<73, 78, 73, 84>> >>,
           \* ["init", "device", "hash", "pool"]
           << <<105, 110, 105, 116>>, <<100, 101, 118, 105, 99, 101>>,
              <<104, 97, 115, 104>>, <<112, 111, 111, 108>> >> }

\* A1126ProDecompiler.__init__
Init ==
    /\ data \in DecompilerImages
    /\ strings = _extract_all_strings(data)
    /\ string_xrefs = _build_string_xrefs(strings)
    /\ min_length = 4      \* the `>= 4` of _extract_all_strings
    /\ called = {}
    /\ target_strings = <<>>
    /\ matches = <<>>
    /\ clusters = <<>>
    /\ results = <<>>
    /\ matched = <<>>
    /\ functions = <<>>
    /\ run = NoRun
    /\ temp_file = Absent
    /\ workers = <<>>
    /\ params = <<>>
    /\ config = <<>>
    /\ previous = NoCall

\* a call of find_function_by_strings(target_strings)
FindFunctionByStrings ==
    \E tsl \in TargetLists :
        LET r == find_function_by_strings(tsl, string_xrefs) IN
        /\ target_strings' = tsl
        /\ matches' = r.matches
        /\ clusters' = r.clusters
        /\ results' = r.results
        /\ called' = called \cup {"find_function_by_strings"}
        /\ UNCHANGED <<data, strings, string_xrefs, matched, min_length,
                       disasmVars, params, config, previous>>

\* a call of match_known_functions()
MatchKnownFunctions ==
    /\ matched' = match_known_functions(string_xrefs)
    /\ called' = called \cup {"match_known_functions"}
    /\ UNCHANGED <<data, strings, string_xrefs, target_strings, matches,
                   clusters, results, min_length, disasmVars, params, config, previous>>

Next == FindFunctionByStrings \/ MatchKnownFunctions

Spec == Init /\ [][Next]_vars

-----------------------------------------------------------------------------
(* Properties of the signature matcher (checked under Spec).               *)

FindReturned == "find_function_by_strings" \in called

MatchAllReturned == "match_known_functions" \in called

\* two fractions of the same value
RatEQ(x, y) == x.num * y.den = y.num * x.den

RECURSIVE Flatten(_)
Flatten(seqs) == IF seqs = <<>> THEN <<>> ELSE seqs[1] \o Flatten(SubSeq(seqs, 2, Len(seqs)))

Elems(seq) == {seq[k] : k \in 1..Len(seq)}

\* the clusters hold the sorted hit offsets, in order, and none is empty
ClustersPartitionMatches ==
    /\ \A k \in 1..(Len(matches) - 1) : matches[k] <= matches[k + 1]
    /\ \A c \in 1..Len(clusters) : clusters[c] # <<>>
    /\ Flatten(clusters) = matches

\* consecutive offsets of one cluster are less than `inside` apart, and the
\* first offset of a cluster is at least `across` after the last of the
\* cluster before it
ClusterGaps(inside, across) ==
    /\ \A c \in 1..Len(clusters) : \A k \in 1..(Len(clusters[c]) - 1) :
          clusters[c][k + 1] - clusters[c][k] < inside
    /\ \A c \in 1..(Len(clusters) - 1) :
          clusters[c + 1][1] - clusters[c][Len(clusters[c])] >= across

\* the claim's example: hits at 100, 200 and 5000
ExampleClusters ==
    matches = <<100, 200, 5000>> => clusters = << <<100, 200>>, <<5000>> >>

\* C1 as stated: a new cluster is started exactly when the gap to the
\* previous offset exceeds 4096, so two consecutive offsets at most 4096
\* apart (a gap of exactly 4096 included) are in one cluster.
C1_AsStated ==
    FindReturned => ClustersPartitionMatches /\ ClusterGaps(4097, 4097) /\ ExampleClusters

\* C1 (amended): over the ascending-sorted hit offsets a new cluster is
\* started exactly when the gap to the previous offset is at least 4096;
\* two consecutive offsets less than 4096 apart are in the same cluster, and
\* the hits 100, 200, 5000 give the clusters {100,200} and {5000}.
C1_Clustering ==
    FindReturned => ClustersPartitionMatches /\ ClusterGaps(4096, 4096) /\ ExampleClusters

\* two consecutive hits exactly 4096 apart were put into two clusters
C1_Witness ==
    /\ FindReturned
    /\ \E c \in 1..(Len(clusters) - 1) :
          clusters[c + 1][1] - clusters[c][Len(clusters[c])] = 4096

\* the cluster an offset lies in (an offset lies in one cluster only)
ClusterOf(addr) == clusters[CHOOSE c \in 1..Len(clusters) : addr \in Elems(clusters[c])]

\* every returned offset lies in a cluster
ResultsComeFromClusters ==
    \A i \in 1..Len(results) :
        \E c \in 1..Len(clusters) : results[i].addr \in Elems(clusters[c])

\* C2 as stated: the representative offset of a cluster is its middle
\* element, the lower-index one of the two middle elements when the cluster
\* has even length.
C2_AsStated ==
    FindReturned =>
        /\ ResultsComeFromClusters
        /\ \A i \in 1..Len(results) :
              LET cl == ClusterOf(results[i].addr) IN
              results[i].addr = cl[((Len(cl) - 1) \div 2) + 1]

\* C2 (amended): the representative offset reported for a cluster is the
\* element at index floor(len/2) of the cluster in ascending order: the
\* middle element of an odd-length cluster and the higher-index one of the
\* two middle elements of an even-length cluster (200 for [100, 200]).
C2_Representative ==
    FindReturned =>
        /\ ResultsComeFromClusters
        /\ \A i \in 1..Len(results) :
              LET cl == ClusterOf(results[i].addr) IN
              results[i].addr = cl[(Len(cl) \div 2) + 1]

\* an even-length cluster with two different middle elements was reported
C2_Witness ==
    /\ FindReturned
    /\ \E i \in 1..Len(results) :
          LET cl == ClusterOf(results[i].addr) IN
          /\ Len(cl) % 2 = 0
          /\ cl[Len(cl) \div 2] < cl[(Len(cl) \div 2) + 1]
          /\ results[i].addr = cl[(Len(cl) \div 2) + 1]

\* min(1, size / n) as an exact fraction
CappedRatio(size, n) == IF size >= n THEN Frac(1, 1) ELSE Frac(size, n)

\* C3: for a signature with at least one characteristic substring, the
\* confidence of every returned cluster equals
\* min(1, cluster_size / number_of_characteristic_substrings) and lies in
\* the interval (0, 1].
C3_Confidence ==
    (FindReturned /\ Len(target_strings) >= 1) =>
        /\ ResultsComeFromClusters
        /\ \A i \in 1..Len(results) :
              LET cl == ClusterOf(results[i].addr)
                  conf == results[i].confidence
              IN  /\ conf.den > 0
                  /\ RatEQ(conf, CappedRatio(Len(cl), Len(target_strings)))
                  /\ RatLT(Frac(0, 1), conf)
                  /\ ~ RatLT(Frac(1, 1), conf)

\* a returned cluster is larger than the number of substrings, so the cap
\* of 1 applies
C3_Witness ==
    /\ FindReturned
    /\ Len(target_strings) >= 1
    /\ \E i \in 1..Len(results) :
          /\ Len(ClusterOf(results[i].addr)) > Len(target_strings)
          /\ RatEQ(results[i].confidence, Frac(1, 1))

\* the entries are in order of non-increasing confidence
NonIncreasingConfidence ==
    \A i \in 1..(Len(results) - 1) :
        ~ RatLT(results[i].confidence, results[i + 1].confidence)

\* C4 as stated: match returns one entry for each cluster it formed, the
\* entries ordered by non-increasing confidence.
C4_AsStated ==
    FindReturned =>
        /\ Len(results) = Len(clusters)
        /\ NonIncreasingConfidence

\* the clusters that have an entry in the result
Returned == {c \in 1..Len(clusters) :
                \E i \in 1..Len(results) : results[i].addr \in Elems(clusters[c])}

\* C4 (amended): match returns one entry for each cluster it formed when it
\* formed at most 5, and otherwise 5 entries for 5 different clusters, none
\* of them of lower confidence than a cluster left out; the entries are
\* ordered by non-increasing confidence.
C4_Ranked ==
    FindReturned =>
        /\ ResultsComeFromClusters
        /\ Len(results) = (IF Len(clusters) <= 5 THEN Len(clusters) ELSE 5)
        /\ Cardinality(Returned) = Len(results)
        /\ NonIncreasingConfidence
        /\ Len(target_strings) >= 1 =>
              \A c \in (1..Len(clusters)) \ Returned : \A i \in 1..Len(results) :
                  ~ RatLT(results[i].confidence,
                          CappedRatio(Len(clusters[c]), Len(target_strings)))

\* six clusters were formed, five returned, and the ranking moved a later
\* cluster ahead of an earlier one
C4_Witness ==
    /\ FindReturned
    /\ Len(clusters) = 6
    /\ Len(results) = 5
    /\ \E i \in 1..4 :
          /\ results[i].addr > results[i + 1].addr
          /\ RatLT(results[i + 1].confidence, results[i].confidence)

\* what find_function_by_strings forms for the k-th signature of the catalog
SigClusters(k) ==
    find_function_by_strings(KNOWN_SIGNATURES[k].strings, string_xrefs).clusters

\* the confidence of cluster cl for the k-th signature
SigConfidence(k, cl) == CappedRatio(Len(cl), Len(KNOWN_SIGNATURES[k].strings))

\* the entries of `matched` for the k-th signature
EntriesOf(k) == {i \in 1..Len(matched) : matched[i].name = KNOWN_SIGNATURES[k].name}

\* C5: match_all returns at most one match per signature of the catalog; a
\* signature has a match in the result if and only if its
\* highest-confidence cluster has confidence strictly greater than 0.3, and
\* the match returned is that highest-confidence cluster.
C5_MatchAll ==
    MatchAllReturned =>
        /\ \A i \in 1..Len(matched) :
              \E k \in 1..Len(KNOWN_SIGNATURES) : i \in EntriesOf(k)
        /\ \A k \in 1..Len(KNOWN_SIGNATURES) :
              LET cls == SigClusters(k)
                  best == {c \in 1..Len(cls) :
                             \A c2 \in 1..Len(cls) :
                                 ~ RatLT(SigConfidence(k, cls[c]), SigConfidence(k, cls[c2]))}
              IN  /\ Cardinality(EntriesOf(k)) <= 1
                  /\ (EntriesOf(k) # {}) <=>
                        \E c \in best : RatLT(Frac(3, 10), SigConfidence(k, cls[c]))
                  /\ \A i \in EntriesOf(k) :
                        \E c \in best :
                            /\ matched[i].address \in Elems(cls[c])
                            /\ RatEQ(matched[i].confidence, SigConfidence(k, cls[c]))

\* a signature with several clusters was matched at a cluster that is not
\* its first one by offset, and another signature has no match
C5_Witness ==
    /\ MatchAllReturned
    /\ \E k \in 1..Len(KNOWN_SIGNATURES) :
          /\ Len(SigClusters(k)) >= 2
          /\ \E i \in EntriesOf(k) : matched[i].address \notin Elems(SigClusters(k)[1])
    /\ \E k \in 1..Len(KNOWN_SIGNATURES) : EntriesOf(k) = {}

\* no string of tsl is contained, ignoring case, in a key of the index
NoKeyContains(tsl) ==
    \A t \in 1..Len(tsl) : \A e \in 1..Len(string_xrefs) :
        ~ Contains(Lower(tsl[t]), Lower(string_xrefs[e].key))

\* C6: for a signature none of whose characteristic substrings is
\* contained (case-insensitively) in any key of the index, match returns an
\* empty result, and match_all has no entry for that signature.
C6_NoMatch ==
    /\ (FindReturned /\ NoKeyContains(target_strings)) => results = <<>>
    /\ MatchAllReturned =>
          \A k \in 1..Len(KNOWN_SIGNATURES) :
              NoKeyContains(KNOWN_SIGNATURES[k].strings) => EntriesOf(k) = {}

\* both were called over a non-empty index for strings that occur nowhere
C6_Witness ==
    /\ FindReturned
    /\ MatchAllReturned
    /\ string_xrefs # <<>>
    /\ target_strings # <<>>
    /\ NoKeyContains(target_strings)
    /\ results = <<>>
    /\ \E k \in 1..Len(KNOWN_SIGNATURES) :
          NoKeyContains(KNOWN_SIGNATURES[k].strings) /\ EntriesOf(k) = {}

\* C7: for the 64 KiB image whose only text runs are "avalon10_init" at
\* 0x1000 and "device" at 0x1050, extraction, index building and matching
\* of ["avalon10", "init", "device"] yield exactly one match, of confidence
\* 1.0, at the median offset of the single cluster.
C7_EndToEnd ==
    (/\ data = EndToEndImage
     /\ FindReturned
     /\ target_strings = KNOWN_SIGNATURES[1].strings) =>
        /\ Len(strings) = 2
        /\ Len(clusters) = 1
        /\ Len(clusters[1]) = 3
        /\ Len(results) = 1
        /\ RatEQ(results[1].confidence, Frac(1, 1))
        /\ results[1].addr = clusters[1][2]
        /\ results[1].addr = 4096

C7_Witness ==
    /\ data = EndToEndImage
    /\ FindReturned
    /\ target_strings = KNOWN_SIGNATURES[1].strings
    /\ Len(results) = 1

\* the offsets at which the extracted text equals `text`
OffsetsOf(text) ==
    {strings[n].key : n \in {m \in 1..Len(strings) : strings[m].val = text}}

\* C10: the offsets stored under a key of the index are exactly the start
\* offsets of the extracted strings whose text equals the key, none missing
\* and none extra, in ascending scan order; no offset is under two keys.
C10_Index ==
    /\ \A n \in 1..Len(strings) : DictHas(string_xrefs, strings[n].val)
    /\ \A e \in 1..Len(string_xrefs) :
          LET addrs == string_xrefs[e].val IN
          /\ \A k \in 1..(Len(addrs) - 1) : addrs[k] < addrs[k + 1]
          /\ Elems(addrs) = OffsetsOf(string_xrefs[e].key)
          /\ addrs # <<>>
    /\ \A e, f \in 1..Len(string_xrefs) :
          e # f => /\ string_xrefs[e].key # string_xrefs[f].key
                   /\ Elems(string_xrefs[e].val) \cap Elems(string_xrefs[f].val) = {}

\* an index of two keys, one of them with several offsets
C10_Witness ==
    /\ Len(string_xrefs) >= 2
    /\ \E e \in 1..Len(string_xrefs) : Len(string_xrefs[e].val) >= 2

-----------------------------------------------------------------------------
(* K210FirmwareAnalyzer over the byte-by-byte enumerated images.           *)

\* byte values at and around the edges of the printable predicate
DenseBytes == {10, 31, 32, 126, 127}

Dense(bytes) ==
    [len |-> Len(bytes),
     segs |-> IF bytes = <<>> THEN <<>> ELSE <<[at |-> 0, bytes |-> bytes]>>]

DenseImages == {Dense(bytes) : bytes \in UNION {[1..n -> DenseBytes] : n \in 0..MaxDenseLen}}

\* K210FirmwareAnalyzer.__init__: self.strings = {}
InitAnalyzer ==
    /\ data \in DenseImages
    /\ strings = <<>>
    /\ min_length = 8      \* extract_strings' default; nothing extracted yet
    /\ called = {}
    /\ string_xrefs = <<>>
    /\ target_strings = <<>>
    /\ matches = <<>>
    /\ clusters = <<>>
    /\ results = <<>>
    /\ matched = <<>>
    /\ functions = <<>>
    /\ run = NoRun
    /\ temp_file = Absent
    /\ workers = <<>>
    /\ params = <<>>
    /\ config = <<>>
    /\ previous = NoCall

\* K210FirmwareAnalyzer.extract_strings(min_length)
\* `strings = {}` ... `self.strings = strings`: the stored set, given the one
\* stored before and the one the call built
\* (variant: the records stored before are kept)
StoredMutant(before, built) ==
    built \o SelectSeq(before, LAMBDA e : ~ DictHas(built, e.key))

Stored(before, built) == built

ExtractStrings ==
    \E m \in 0..MaxMinLength :
        /\ strings' = Stored(strings, extract_strings(data, m))
        /\ min_length' = m
        /\ previous' = [called |-> "extract_strings" \in called,
                        strings |-> strings, min_length |-> min_length]
        /\ called' = called \cup {"extract_strings"}
        /\ UNCHANGED <<data, string_xrefs, target_strings, matches, clusters,
                       results, matched, disasmVars, params, config>>

NextAnalyzer == ExtractStrings

SpecAnalyzer == InitAnalyzer /\ [][NextAnalyzer]_vars

-----------------------------------------------------------------------------
(* Properties of string extraction (checked under SpecAnalyzer).           *)

ExtractReturned == "extract_strings" \in called

\* the bytes of the image at [lo, hi)
Slice(d, lo, hi) == [k \in 1..(hi - lo) |-> ByteAt(d, lo + k - 1)]

\* printable ASCII, or one of the whitespace bytes 9, 10, 13
Printable(b) == (32 <= b /\ b <= 126) \/ b = 9 \/ b = 10 \/ b = 13

\* a maximal run of printable bytes starts at s
RunStartsAt(s) ==
    /\ Printable(ByteAt(data, s))
    /\ s = 0 \/ ~ Printable(ByteAt(data, s - 1))

\* the offset after the last byte of the run that starts at s
RunEnd(s) ==
    CHOOSE e \in (s + 1)..data.len :
        /\ \A j \in s..(e - 1) : Printable(ByteAt(data, j))
        /\ e = data.len \/ ~ Printable(ByteAt(data, e))

\* C8: extraction emits a record for every maximal run of qualifying bytes
\* of length >= min_length, a run ended by the end of the buffer included
\* (stated for the calls with min_length >= 1).
C8_EveryRun ==
    (ExtractReturned /\ min_length >= 1) =>
        \A s \in 0..(data.len - 1) :
            (RunStartsAt(s) /\ RunEnd(s) - s >= min_length) =>
                /\ DictHas(strings, s)
                /\ DictGet(strings, s) = Slice(data, s, RunEnd(s))

\* C9: every extracted record has text of length >= min_length, and its
\* text is exactly the bytes of the buffer at
\* [start_offset, start_offset + length), all of them printable.
C9_Records ==
    ExtractReturned =>
        \A n \in 1..Len(strings) :
            LET start == strings[n].key
                text == strings[n].val
            IN  /\ Len(text) >= min_length
                /\ 0 <= start
                /\ start + Len(text) <= data.len
                /\ text = Slice(data, start, start + Len(text))
                /\ \A j \in 1..Len(text) : Printable(text[j])

\* a record of exactly min_length >= 2 bytes that does not start the image
C9_Witness ==
    /\ ExtractReturned
    /\ min_length >= 2
    /\ \E n \in 1..Len(strings) :
          /\ Len(strings[n].val) = min_length
          /\ strings[n].key > 0

-----------------------------------------------------------------------------
(* RiscVDisassembler: function boundaries.                                 *)

\* RiscVDisassembler._extract_strings(): the scan loop with `>= 4`, without
\* the whitespace bytes
_extract_strings(d) == ScanLoop(d, 4, FALSE)

\* prologue_patterns, each as its two bytes:
\* b'\x01\x11', b'\x39\x71', b'\x79\x71', b'\x41\x11'
prologue_patterns == << <<1, 17>>, <<57, 113>>, <<121, 113>>, <<65, 17>> >>

\* b'\x82\x80' (c.ret)
EpiloguePattern == <<130, 128>>

ScanExtent == 1048576      \* 0x100000

ScanWindow == 8192         \* 0x2000

MaxFunctions == 200        \* the [:200] of the return

\* self.data[i:i+2] == pattern, for i + 2 <= len(self.data)
WordIs(d, i, pattern) == ByteAt(d, i) = pattern[1] /\ ByteAt(d, i + 1) = pattern[2]

\* `for pattern in prologue_patterns: if word == pattern`
IsPrologue(d, i) == \E p \in 1..Len(prologue_patterns) : WordIs(d, i, prologue_patterns[p])

\* range(lo, hi, 2) as a set
Range2(lo, hi) == IF hi <= lo THEN {} ELSE {lo + 2 * k : k \in 0..((hi - lo - 1) \div 2)}

\* the range of the inner loop: range(i + 4, min(i + 0x2000, len - 2), 2)
\* (variant: the last two bytes of the image are looked at as well)
EpilogueRangeMutant(d, i) ==
    Range2(i + 4, IF i + ScanWindow < d.len - 1 THEN i + ScanWindow ELSE d.len - 1)

EpilogueRange(d, i) ==
    Range2(i + 4, IF i + ScanWindow < d.len - 2 THEN i + ScanWindow ELSE d.len - 2)

\* the positions of the inner loop at which the epilogue test succeeds; the
\* loop appends for the first of them and breaks
EpilogueHits(d, i) == {j \in EpilogueRange(d, i) : WordIs(d, j, EpiloguePattern)}

\* One iteration of `for i in range(0, min(len - 4, 0x100000), 2)`.
\* st = [i, functions]
\* (variant: the scan stops at the first prologue without an epilogue)
BoundaryStepMutant(st, d) ==
    IF IsPrologue(d, st.i)
    THEN LET hits == EpilogueHits(d, st.i) IN
         IF hits = {} THEN [st EXCEPT !.i = ScanExtent]
         ELSE LET j == CHOOSE j \in hits : \A h \in hits : j <= h IN
              [i |-> st.i + 2,
               functions |-> Append(st.functions, [start |-> st.i, end |-> j + 2])]
    ELSE [st EXCEPT !.i = st.i + 2]

BoundaryStep(st, d) ==
    IF IsPrologue(d, st.i)
    THEN LET hits == EpilogueHits(d, st.i) IN
         IF hits = {} THEN [st EXCEPT !.i = st.i + 2]
         ELSE LET j == CHOOSE j \in hits : \A h \in hits : j <= h IN
              [i |-> st.i + 2,
               functions |-> Append(st.functions, [start |-> st.i, end |-> j + 2])]
    ELSE [st EXCEPT !.i = st.i + 2]

\* The iterations for the indices st.i, st.i + 2, ... below hi, in ascending
\* order; the index range is halved only to keep the evaluation depth
\* logarithmic.
RECURSIVE BoundaryTo(_, _, _)
BoundaryTo(st, d, hi) ==
    IF st.i >= hi THEN st
    ELSE IF hi - st.i <= 2 THEN BoundaryStep(st, d)
    ELSE BoundaryTo(BoundaryTo(st, d, st.i + 2 * ((hi - st.i + 1) \div 4)), d, hi)

\* min(len(self.data) - 4, 0x100000)
OuterStop(d) == IF d.len - 4 < ScanExtent THEN d.len - 4 ELSE ScanExtent

\* functions[:200]
\* (variant: the last 200)
CapMutant(seq) == SubSeq(seq, IF Len(seq) > MaxFunctions THEN Len(seq) - MaxFunctions + 1 ELSE 1, Len(seq))

Cap(seq) == Prefix(seq, MaxFunctions)

\* RiscVDisassembler.find_function_boundaries()
find_function_boundaries(d) ==
    Cap(BoundaryTo([i |-> 0, functions |-> <<>>], d, OuterStop(d)).functions)

-----------------------------------------------------------------------------
(* RiscVDisassembler over images made of 2-byte words.                     *)

MaxWords == 4         \* most 2-byte words in an enumerated image

\* the words of the enumerated images: two prologues (c.addi sp,-16 and
\* c.addi sp,-48), the epilogue and the filler
BoundaryWords == { <<1, 17>>, <<65, 17>>, <<130, 128>>, <<0, 0>> }

\* `shift` filler bytes, the words, then `tail` filler bytes
WordImage(words, shift, tail) ==
    [len |-> shift + 2 * Len(words) + tail,
     segs |-> IF words = <<>> THEN <<>>
              ELSE <<[at |-> shift, bytes |-> Flatten(words)]>>]

WordImages ==
    UNION { { WordImage(words, shift, tail) :
                words \in [1..n -> BoundaryWords], shift \in {0, 1}, tail \in {0, 1} }
            : n \in 0..MaxWords }

\* a prologue at 0 and an epilogue at the last or just after the last
\* position of its scan window, with or without a second prologue 4 bytes
\* before the window's end; two filler bytes after the epilogue
WindowImages ==
    { [len |-> e + 4,
       segs |-> << [at |-> 0, bytes |-> <<1, 17>>] >>
                \o (IF second THEN << [at |-> 8188, bytes |-> <<57, 113>>] >> ELSE <<>>)
                \o << [at |-> e, bytes |-> <<130, 128>>] >>]
      : e \in {8190, 8192}, second \in BOOLEAN }

\* one more prologue/epilogue pair than find_function_boundaries returns:
\* the six bytes 01 11 00 00 82 80 over and over, then two filler bytes
CapImage ==
    [len |-> 6 * (MaxFunctions + 1) + 2,
     segs |-> << [at |-> 0,
                  bytes |-> [k \in 1..(6 * (MaxFunctions + 1)) |->
                                <<1, 17, 0, 0, 130, 128>>[((k - 1) % 6) + 1]]] >>]

\* prologues at the last position below 1 MiB and at 1 MiB, an epilogue
\* after both
LimitImage ==
    [len |-> 1048576 + 8,
     segs |-> << [at |-> 1048574, bytes |-> <<1, 17, 1, 17, 0, 0, 130, 128>>] >>]

BoundaryImages == WordImages \cup WindowImages \cup {CapImage, LimitImage}

\* RiscVDisassembler.__init__
InitDisassembler ==
    /\ data \in BoundaryImages
    /\ strings = _extract_strings(data)
    /\ min_length = 4      \* the `>= 4` of _extract_strings
    /\ called = {}
    /\ functions = <<>>
    /\ run = NoRun
    /\ temp_file = Absent
    /\ workers = <<>>
    /\ string_xrefs = <<>>
    /\ target_strings = <<>>
    /\ matches = <<>>
    /\ clusters = <<>>
    /\ results = <<>>
    /\ matched = <<>>
    /\ params = <<>>
    /\ config = <<>>
    /\ previous = NoCall

\* a call of find_function_boundaries()
FindFunctionBoundaries ==
    /\ functions' = find_function_boundaries(data)
    /\ called' = called \cup {"find_function_boundaries"}
    /\ UNCHANGED <<data, strings, string_xrefs, target_strings, matches, clusters,
                   results, matched, min_length, run, temp_file, workers, params, config, previous>>

NextDisassembler == FindFunctionBoundaries

SpecDisassembler == InitDisassembler /\ [][NextDisassembler]_vars

-----------------------------------------------------------------------------
(* Properties of function boundary detection (checked under                *)
(* SpecDisassembler).                                                      *)

BoundariesReturned == "find_function_boundaries" \in called

\* the offsets of the image that are written out; every other byte is the
\* filler, which starts no pattern
Written == UNION { {data.segs[k].at + n : n \in 0..(Len(data.segs[k].bytes) - 1)}
                   : k \in 1..Len(data.segs) }

\* a known prologue / the epilogue byte sequence lies at offset i
PrologueAt(i) ==
    /\ i + 2 <= data.len
    /\ <<ByteAt(data, i), ByteAt(data, i + 1)>> \in
          { <<1, 17>>, <<57, 113>>, <<121, 113>>, <<65, 17>> }

EpilogueAt(j) ==
    /\ j + 2 <= data.len
    /\ ByteAt(data, j) = 130
    /\ ByteAt(data, j + 1) = 128

\* the 2-byte aligned offsets holding a prologue, and those holding an epilogue
AlignedPrologues == {i \in Written : i % 2 = 0 /\ PrologueAt(i)}

AlignedEpilogues == {j \in Written : j % 2 = 0 /\ EpilogueAt(j)}

\* C11 as stated: a buffer with exactly one known prologue (at a 2-byte
\* aligned offset below 1 MiB) and, after it and less than 8 KiB from it,
\* exactly one epilogue yields exactly one candidate range, from the
\* prologue's first byte to the byte after the epilogue; also when the
\* epilogue immediately follows the prologue and when the epilogue is the
\* last two bytes of the buffer.
C11_AsStated ==
    BoundariesReturned =>
        \A p \in AlignedPrologues : \A e \in AlignedEpilogues :
            (/\ AlignedPrologues = {p}
             /\ AlignedEpilogues = {e}
             /\ p < 1048576
             /\ p + 2 <= e
             /\ e < p + 8192) =>
                functions = << [start |-> p, end |-> e + 2] >>

\* the prologue at aligned offset i has an epilogue that the scan reaches:
\* aligned, at least 4 and less than 8192 bytes after i, and not in the
\* last two bytes of the image
Detectable(i) ==
    /\ i < data.len - 4
    /\ \E j \in AlignedEpilogues : i + 4 <= j /\ j < i + 8192 /\ j < data.len - 2

\* the start offsets returned
Starts == {functions[k].start : k \in 1..Len(functions)}

\* C12: a prologue for which no epilogue pattern occurs within 8 KiB after
\* it produces no candidate range, and the scan goes on with the next
\* 2-byte position, so that every later prologue with an epilogue in its
\* window still gets its candidate (as long as fewer than 200 were found).
C12_NoEpilogue ==
    BoundariesReturned =>
        /\ \A k \in 1..Len(functions) :
              \E j \in (functions[k].start + 2)..(functions[k].start + 8191) :
                  EpilogueAt(j)
        /\ Len(functions) < 200 =>
              \A q \in AlignedPrologues : (q < 1048576 /\ Detectable(q)) => q \in Starts

\* a prologue whose nearest epilogue is exactly 8 KiB after it gave no
\* candidate, and a later prologue gave one
C12_Witness ==
    /\ BoundariesReturned
    /\ \E p \in AlignedPrologues :
          /\ p \notin Starts
          /\ EpilogueAt(p + 8192)
          /\ \A j \in (p + 2)..(p + 8191) : ~ EpilogueAt(j)
          /\ \E q \in Starts : q > p

\* C13: find_function_boundaries returns at most 200 ranges, in strictly
\* ascending order of start offset; every returned range is a
\* prologue/epilogue pair, no returned range starts at or beyond 1 MiB, and
\* a pair below 1 MiB is left out only when 200 pairs of lower start
\* offset are returned.
C13_Capped ==
    BoundariesReturned =>
        /\ Len(functions) <= 200
        /\ \A k \in 1..(Len(functions) - 1) : functions[k].start < functions[k + 1].start
        /\ \A k \in 1..Len(functions) :
              /\ functions[k].start < 1048576
              /\ functions[k].start \in AlignedPrologues
              /\ Detectable(functions[k].start)
        /\ \A q \in AlignedPrologues :
              (q < 1048576 /\ Detectable(q) /\ q \notin Starts) =>
                  /\ Len(functions) = 200
                  /\ \A s \in Starts : s < q

\* 200 ranges were returned and a further pair was left out
C13_Witness ==
    /\ BoundariesReturned
    /\ Len(functions) = 200
    /\ \E q \in AlignedPrologues : Detectable(q) /\ q \notin Starts

-----------------------------------------------------------------------------
(* Text of the disassembly backend.  The text objdump prints is ASCII; an  *)
(* integer parsed from it can exceed any offset of the image (the listing  *)
(* addresses start at 0x80000000), so a parsed integer is kept as its sign *)
(* and its hexadecimal digits, most significant first, without leading     *)
(* zeros.                                                                  *)

\* the characters str.strip() removes, among ASCII
IsSpace(c) == c \in {9, 10, 11, 12, 13, 28, 29, 30, 31, 32}

\* str.strip()
Strip(s) ==
    LET keep == {k \in 1..Len(s) : ~ IsSpace(s[k])} IN
    IF keep = {} THEN <<>>
    ELSE SubSeq(s, CHOOSE k \in keep : \A j \in keep : k <= j,
                   CHOOSE k \in keep : \A j \in keep : k >= j)

\* str.rstrip(':')
RStripColon(s) ==
    LET keep == {k \in 1..Len(s) : s[k] # 58} IN
    IF keep = {} THEN <<>>
    ELSE SubSeq(s, 1, CHOOSE k \in keep : \A j \in keep : k >= j)

\* str.split(sep) for a one-character separator
RECURSIVE Split(_, _)
Split(s, sep) ==
    LET at == {k \in 1..Len(s) : s[k] = sep} IN
    IF at = {} THEN <<s>>
    ELSE LET k == CHOOSE k \in at : \A j \in at : k <= j IN
         <<SubSeq(s, 1, k - 1)>> \o Split(SubSeq(s, k + 1, Len(s)), sep)

\* str.replace(' ', '')
RECURSIVE DropSpaces(_)
DropSpaces(s) ==
    IF s = <<>> THEN <<>>
    ELSE (IF s[1] = 32 THEN <<>> ELSE <<s[1]>>) \o DropSpaces(SubSeq(s, 2, Len(s)))

\* the value of a hexadecimal digit of either case, -1 for any other character
HexVal(c) ==
    IF 48 <= c /\ c <= 57 THEN c - 48
    ELSE IF 97 <= c /\ c <= 102 THEN c - 87
    ELSE IF 65 <= c /\ c <= 70 THEN c - 55
    ELSE -1

\* digit values without the leading zeros
RECURSIVE Normal(_)
Normal(mag) ==
    IF mag # <<>> /\ mag[1] = 0 THEN Normal(SubSeq(mag, 2, Len(mag))) ELSE mag

\* the digits of int(s, 16)'s literal: hexadecimal digits, single
\* underscores between them (and one after a 0x prefix)
DigitsOk(body, prefixed) ==
    /\ body # <<>>
    /\ \A k \in 1..Len(body) : HexVal(body[k]) >= 0 \/ body[k] = 95
    /\ body[Len(body)] # 95
    /\ prefixed \/ body[1] # 95
    /\ \A k \in 1..(Len(body) - 1) : ~ (body[k] = 95 /\ body[k + 1] = 95)

\* int(s, 16): surrounding whitespace, a sign, a 0x/0X prefix and the digits.
\* ok = FALSE where Python raises ValueError.
IntHex(s) ==
    LET t == Strip(s)
        signed == t # <<>> /\ t[1] \in {43, 45}
        u == IF signed THEN SubSeq(t, 2, Len(t)) ELSE t
        prefixed == Len(u) >= 2 /\ u[1] = 48 /\ u[2] \in {120, 88}
        \* "0x" alone fails; without a usable prefix the text is read as digits
        body == IF prefixed /\ DigitsOk(SubSeq(u, 3, Len(u)), TRUE)
                THEN SubSeq(u, 3, Len(u)) ELSE u
        digits == SelectSeq(body, LAMBDA c : c # 95)
    IN  IF DigitsOk(body, body # u)
        THEN [ok |-> TRUE,
              neg |-> signed /\ t[1] = 45 /\ Normal([k \in 1..Len(digits) |-> HexVal(digits[k])]) # <<>>,
              mag |-> Normal([k \in 1..Len(digits) |-> HexVal(digits[k])])]
        ELSE [ok |-> FALSE]

\* bytes.fromhex(s) for s without white space: pairs of hexadecimal digits.
\* ok = FALSE where Python raises ValueError.
FromHex(s) ==
    IF Len(s) % 2 = 0 /\ \A k \in 1..Len(s) : HexVal(s[k]) >= 0
    THEN [ok |-> TRUE,
          bytes |-> [k \in 1..(Len(s) \div 2) |->
                        16 * HexVal(s[2 * k - 1]) + HexVal(s[2 * k])]]
    ELSE [ok |-> FALSE]

\* [0-9a-f]
IsLowerHex(c) == (48 <= c /\ c <= 57) \/ (97 <= c /\ c <= 102)

\* re.search(r'0x([0-9a-f]+)', s): the leftmost "0x" followed by a
\* lower-case hexadecimal digit, and as group 1 the longest digit run
\* after it, given as int(group, 16)
SearchHex(s) ==
    LET at == {k \in 1..(Len(s) - 2) :
                  s[k] = 48 /\ s[k + 1] = 120 /\ IsLowerHex(s[k + 2])} IN
    IF at = {} THEN [found |-> FALSE]
    ELSE LET k == CHOOSE k \in at : \A j \in at : k <= j
             e == CHOOSE e \in (k + 2)..Len(s) :
                     /\ \A j \in (k + 2)..e : IsLowerHex(s[j])
                     /\ e = Len(s) \/ ~ IsLowerHex(s[e + 1])
         IN  [found |-> TRUE,
              value |-> Normal([j \in 1..(e - k - 1) |-> HexVal(s[k + 1 + j])])]

\* the hexadecimal digits of a natural number, as a parsed integer has them
RECURSIVE HexDigits(_)
HexDigits(n) == IF n = 0 THEN <<>> ELSE Append(HexDigits(n \div 16), n % 16)

-----------------------------------------------------------------------------
(* RiscVDisassembler: one candidate range.                                 *)

\* "jal", "call", "lui", "auipc"
Jal == <<106, 97, 108>>

Call == <<99, 97, 108, 108>>

Lui == <<108, 117, 105>>

Auipc == <<97, 117, 105, 112, 99>>

\* `':' in line and '\t' in line`
IsListingLine(line) == (\E k \in 1..Len(line) : line[k] = 58) /\ (\E k \in 1..Len(line) : line[k] = 9)

\* The call of subprocess.run and what disassemble_range makes of it.
\* outcome is what the backend did: it could not be run ("error"), it ran
\* into the 30 s timeout ("timeout"), or it ended and left `text` on its
\* standard output ("stdout").  Both exceptions are caught: the message is
\* printed and [] returned.
disassemble_range(outcome) ==
    IF outcome.kind = "stdout"
    THEN LET lines == Split(outcome.text, 10)
             listed == SelectSeq(lines, IsListingLine)
         IN  [disasm |-> [k \in 1..Len(listed) |-> Strip(listed[k])], printed |-> <<>>]
    ELSE [disasm |-> <<>>, printed |-> <<"Disassembly error">>]

\* parts[n] (1-based here) stripped, or "" when the line has fewer parts
Part(parts, n) == IF Len(parts) >= n THEN Strip(parts[n]) ELSE <<>>

\* bytes.fromhex(raw_hex.replace(' ', '')) if raw_hex else b''
RawBytes(raw_hex) ==
    IF raw_hex # <<>> THEN FromHex(DropSpaces(raw_hex))
    ELSE [ok |-> TRUE, bytes |-> <<>>]

\* what one line adds, given its fields: `fields` is len(parts), addr the
\* parsed address, raw the parsed raw bytes, match the re.search over the
\* operands
ParseFields(st, fields, addr, raw, mnemonic, operands, match, strs) ==
    IF fields < 2 \/ ~ addr.ok THEN [st EXCEPT !.n = st.n + 1]
    ELSE IF ~ raw.ok THEN [st EXCEPT !.raised = TRUE]
    ELSE [n |-> st.n + 1,
          raised |-> FALSE,
          calls |-> IF (Contains(Jal, mnemonic) \/ Contains(Call, mnemonic)) /\ match.found
                    THEN Append(st.calls, match.value) ELSE st.calls,
          string_refs |->
              IF /\ Contains(Lui, mnemonic) \/ Contains(Auipc, mnemonic)
                 /\ match.found
                 /\ \E e \in 1..Len(strs) : HexDigits(strs[e].key) = match.value
              THEN Append(st.string_refs, match.value) ELSE st.string_refs,
          instructions |->
              Append(st.instructions,
                     [address |-> [neg |-> addr.neg, mag |-> addr.mag],
                      raw |-> raw.bytes,
                      mnemonic |-> mnemonic,
                      operands |-> operands])]

\* the fields of `parts = line.split('\t')`
ParseParts(st, parts, operands, strs) ==
    ParseFields(st, Len(parts), IntHex(RStripColon(parts[1])), RawBytes(Part(parts, 2)),
                Part(parts, 3), operands, SearchHex(operands), strs)

\* One iteration of `for line in disasm`.
\* st = [n, raised, instructions, calls, string_refs]
ParseSplit(st, parts, strs) == ParseParts(st, parts, Part(parts, 4), strs)

ParseLine(st, line, strs) == ParseSplit(st, Split(line, 9), strs)

\* `for line in disasm` from line st.n on, up to a ValueError
RECURSIVE ParseLoop(_, _, _)
ParseLoop(st, disasm, strs) ==
    IF st.raised \/ st.n > Len(disasm) THEN st
    ELSE ParseLoop(ParseLine(st, disasm[st.n], strs), disasm, strs)

\* what analyze_function returns for the listing dr, parsed into st
Analyzed(start, end, dr, st) ==
    IF dr.disasm = <<>> THEN [kind |-> "None", printed |-> dr.printed]
    ELSE IF st.raised THEN [kind |-> "raised", printed |-> dr.printed]
    ELSE [kind |-> "Function",
          printed |-> dr.printed,
          name |-> start,        \* f"sub_{start:08X}"
          start |-> start,
          end |-> end,
          instructions |-> st.instructions,
          calls |-> st.calls,
          strings_refs |-> st.string_refs]

\* analyze_function from the listing on
AnalyzeListing(start, end, dr, strs) ==
    Analyzed(start, end, dr,
             ParseLoop([n |-> 1, raised |-> FALSE, instructions |-> <<>>,
                        calls |-> <<>>, string_refs |-> <<>>], dr.disasm, strs))

\* RiscVDisassembler.analyze_function(start, end), given what the backend
\* did.  kind is "None" (no listing), "raised" (ValueError out of
\* bytes.fromhex) or "Function".
analyze_function(start, end, outcome, strs) ==
    AnalyzeListing(start, end, disassemble_range(outcome), strs)

-----------------------------------------------------------------------------
(* What the disassembly backend may do when it is called.                  *)

\* a line of the listing's head: a colon, no tab
\* "Disassembly of section .data:"
LineHeader ==
    <<68, 105, 115, 97, 115, 115, 101, 109, 98, 108, 121, 32, 111, 102,
      32, 115, 101, 99, 116, 105, 111, 110, 32, 46, 100, 97, 116, 97,
      58>>

\* "  80000000:\t1141  \taddi\tsp,sp,-16"
LineAddi ==
    <<32, 32, 56, 48, 48, 48, 48, 48, 48, 48, 58, 9, 49, 49, 52, 49, 32,
      32, 9, 97, 100, 100, 105, 9, 115, 112, 44, 115, 112, 44, 45, 49,
      54>>

\* "  80000002:\t8082  \tret"
LineRet ==
    <<32, 32, 56, 48, 48, 48, 48, 48, 48, 50, 58, 9, 56, 48, 56, 50, 32,
      32, 9, 114, 101, 116>>

\* "  80000004:\t010000ef  \tjal\tra,0x80000014"
LineJal ==
    <<32, 32, 56, 48, 48, 48, 48, 48, 48, 52, 58, 9, 48, 49, 48, 48, 48,
      48, 101, 102, 32, 32, 9, 106, 97, 108, 9, 114, 97, 44, 48, 120,
      56, 48, 48, 48, 48, 48, 49, 52>>

\* "  80000008:\t00000537  \tlui\ta0,0x20"
LineLui ==
    <<32, 32, 56, 48, 48, 48, 48, 48, 48, 56, 58, 9, 48, 48, 48, 48, 48,
      53, 51, 55, 32, 32, 9, 108, 117, 105, 9, 97, 48, 44, 48, 120, 50,
      48>>

\* the address field is not hexadecimal
\* "  zzzz:\t0001  \tnop"
LineBadAddress ==
    <<32, 32, 122, 122, 122, 122, 58, 9, 48, 48, 48, 49, 32, 32, 9, 110,
      111, 112>>

\* nothing after the address
\* "  8000000a:\t"
LineFewFields ==
    <<32, 32, 56, 48, 48, 48, 48, 48, 48, 97, 58, 9>>

\* the raw-bytes field has an odd number of digits
\* "  8000000c:\t001  \tnop"
LineOddRaw ==
    <<32, 32, 56, 48, 48, 48, 48, 48, 48, 99, 58, 9, 48, 48, 49, 32, 32,
      9, 110, 111, 112>>

\* the raw-bytes field is not hexadecimal
\* "  8000000e:\txyz1  \tnop"
LineNonHexRaw ==
    <<32, 32, 56, 48, 48, 48, 48, 48, 48, 101, 58, 9, 120, 121, 122, 49,
      32, 32, 9, 110, 111, 112>>

\* a call whose target is written with upper-case digits
\* "  80000010:\t3bd0a0ef  \tjal\tra,0x8000ABCD"
LineJalUpper ==
    <<32, 32, 56, 48, 48, 48, 48, 48, 49, 48, 58, 9, 51, 98, 100,
      48, 97, 48, 101, 102, 32, 32, 9, 106, 97, 108, 9, 114, 97,
      44, 48, 120, 56, 48, 48, 48, 65, 66, 67, 68>>

\* an upper-immediate load whose literal has upper-case digits
\* "  80000014:\t000205b7  \tlui\ta1,0x20AB"
LineLuiUpper ==
    <<32, 32, 56, 48, 48, 48, 48, 48, 49, 52, 58, 9, 48, 48, 48,
      50, 48, 53, 98, 55, 32, 32, 9, 108, 117, 105, 9, 97, 49, 44,
      48, 120, 50, 48, 65, 66>>

\* an upper-immediate load of 0x30, where no string starts
\* "  80000018:\t00030637  \tlui\ta2,0x30"
LineLuiOther ==
    <<32, 32, 56, 48, 48, 48, 48, 48, 49, 56, 58, 9, 48, 48, 48,
      51, 48, 54, 51, 55, 32, 32, 9, 108, 117, 105, 9, 97, 50, 44,
      48, 120, 51, 48>>

\* a literal in an instruction of another class
\* "  8000001c:\t02050513  \taddi\ta0,a0,0x20"
LineAddiHex ==
    <<32, 32, 56, 48, 48, 48, 48, 48, 49, 99, 58, 9, 48, 50, 48,
      53, 48, 53, 49, 51, 32, 32, 9, 97, 100, 100, 105, 9, 97, 48,
      44, 97, 48, 44, 48, 120, 50, 48>>

\* a call without a literal
\* "  80000020:\t000080e7  \tjalr\tra"
LineJalr ==
    <<32, 32, 56, 48, 48, 48, 48, 48, 50, 48, 58, 9, 48, 48, 48,
      48, 56, 48, 101, 55, 32, 32, 9, 106, 97, 108, 114, 9, 114,
      97>>

\* a PC-relative address
\* "  80000024:\t00020517  \tauipc\ta0,0x20"
LineAuipc ==
    <<32, 32, 56, 48, 48, 48, 48, 48, 50, 52, 58, 9, 48, 48, 48,
      50, 48, 53, 49, 55, 32, 32, 9, 97, 117, 105, 112, 99, 9, 97,
      48, 44, 48, 120, 50, 48>>

\* the standard output for a listing: every line followed by "\n"
RECURSIVE Stdout(_)
Stdout(lines) ==
    IF lines = <<>> THEN <<>> ELSE lines[1] \o <<10>> \o Stdout(SubSeq(lines, 2, Len(lines)))

\* the listings the backend prints in the model: none, the head only, two
\* well-formed listings, listings with one malformed line each, one with
\* literals in every class of instruction, and two with upper-case literals
Listings ==
    { <<>>,
      <<LineHeader>>,
      <<LineHeader, LineAddi, LineRet>>,
      <<LineHeader, LineJal, LineLui, LineRet>>,
      <<LineAddi, LineBadAddress, LineRet>>,
      <<LineAddi, LineFewFields, LineRet>>,
      <<LineAddi, LineOddRaw, LineRet>>,
      <<LineNonHexRaw>>,
      <<LineAddiHex, LineLuiOther, LineJalr, LineAuipc, LineRet>>,
      <<LineJalUpper, LineRet>>,
      <<LineLuiUpper, LineRet>> }

BackendOutcomes ==
    { [kind |-> "error"], [kind |-> "timeout"] }
    \cup { [kind |-> "stdout", text |-> Stdout(lines)] : lines \in Listings }

-----------------------------------------------------------------------------
(* RiscVDisassembler.generate_annotated_disassembly, one backend call per  *)
(* step.  run = [pc, func_bounds, backend, funcs, printed, boot, output]:  *)
(*   func_bounds  the local of that name                                   *)
(*   backend      what the backend did at each analyze_function call made  *)
(*   funcs        the values analyze_function returned, in call order      *)
(*   printed      the "Disassembly error" messages printed, each with the  *)
(*                index of the range whose call printed it (0: the boot    *)
(*                section)                                                 *)
(*   boot         the lines of the boot section written to the file        *)
(*   output       the start offsets of the functions written to the file   *)
(* pc is "boot" before the boot section call, "functions" inside the loop, *)
(* "done" after the loop and "raised" when an exception left the method.   *)

MaxRanges == 3        \* most candidate ranges in an image of a run

AnalyzeCap == 50      \* the [:50] of the loop

BootLines == 100      \* the [:100] of the boot section

\* n functions of six bytes each, a prologue (the patterns in turn), two
\* filler bytes and the epilogue, and "boot" at offset 32
RunImage(n) ==
    [len |-> 40,
     segs |-> [k \in 1..n |->
                 [at |-> 6 * (k - 1),
                  bytes |-> prologue_patterns[((k - 1) % 4) + 1] \o <<0, 0, 130, 128>>]]
              \o << [at |-> 32, bytes |-> <<98, 111, 111, 116>>] >>]

RunImages == {RunImage(n) : n \in 0..MaxRanges}

\* RiscVDisassembler.__init__
InitRun ==
    /\ data \in RunImages
    /\ strings = _extract_strings(data)
    /\ min_length = 4
    /\ called = {}
    /\ functions = <<>>
    /\ run = NoRun
    /\ temp_file = Absent
    /\ workers = <<>>
    /\ string_xrefs = <<>>
    /\ target_strings = <<>>
    /\ matches = <<>>
    /\ clusters = <<>>
    /\ results = <<>>
    /\ matched = <<>>
    /\ params = <<>>
    /\ config = <<>>
    /\ previous = NoCall

runUnchanged == <<data, strings, string_xrefs, target_strings, matches, clusters,
                  results, matched, min_length, functions, workers, params, config, previous>>

\* the call, up to the boot section: lines 213-231
GenerateAnnotatedDisassembly ==
    /\ run.pc = "idle"
    /\ run' = [NoRun EXCEPT !.pc = "boot",
                            !.func_bounds = find_function_boundaries(data)]
    /\ called' = called \cup {"generate_annotated_disassembly"}
    /\ UNCHANGED <<runUnchanged, temp_file>>

\* the loop is over func_bounds[:50]
LoopRanges(r) == Prefix(r.func_bounds, AnalyzeCap)

\* boot_disasm = self.disassemble_range(0, 0x1000) and the writes after it:
\* lines 233-241
DisassembleBoot ==
    /\ run.pc = "boot"
    /\ \E outcome \in BackendOutcomes :
          LET dr == disassemble_range(outcome) IN
          run' = [run EXCEPT
                    !.pc = IF LoopRanges(run) = <<>> THEN "done" ELSE "functions",
                    !.printed = run.printed
                                \o [k \in 1..Len(dr.printed) |-> [range |-> 0, msg |-> dr.printed[k]]],
                    !.boot = Prefix(dr.disasm, BootLines)]
    /\ temp_file' = Absent     \* written, then removed in the `finally`
    /\ UNCHANGED <<runUnchanged, called>>

\* the run after the k-th call of analyze_function returned (or raised) f
AfterAnalyze(r, k, outcome, f, said) ==
    IF f.kind = "raised"
    THEN [r EXCEPT !.pc = "raised",
                   !.backend = Append(r.backend, outcome),
                   !.printed = r.printed \o said]
    ELSE [r EXCEPT !.pc = IF k = Len(LoopRanges(r)) THEN "done" ELSE "functions",
                   !.backend = Append(r.backend, outcome),
                   !.funcs = Append(r.funcs, f),
                   !.printed = r.printed \o said,
                   !.output = IF f.kind = "Function"
                              THEN Append(r.output, f.start) ELSE r.output]

\* the messages a call printed, each with the index of its range
Said(k, printed) == [n \in 1..Len(printed) |-> [range |-> k, msg |-> printed[n]]]

\* the k-th iteration, given what the backend did
Iteration(r, k, outcome, f) == AfterAnalyze(r, k, outcome, f, Said(k, f.printed))

\* one iteration of `for i, (start, end) in enumerate(func_bounds[:50])`:
\* lines 243-262
AnalyzeRange(r, k, range, outcome, strs) ==
    Iteration(r, k, outcome, analyze_function(range.start, range.end, outcome, strs))

AnalyzeFunction ==
    /\ run.pc = "functions"
    /\ \E outcome \in BackendOutcomes :
          run' = AnalyzeRange(run, Len(run.funcs) + 1,
                              LoopRanges(run)[Len(run.funcs) + 1], outcome, strings)
    /\ temp_file' = Absent     \* written, then removed in the `finally`
    /\ UNCHANGED <<runUnchanged, called>>

NextRun == GenerateAnnotatedDisassembly \/ DisassembleBoot \/ AnalyzeFunction

SpecRun == InitRun /\ [][NextRun]_vars

-----------------------------------------------------------------------------
(* Properties of a disassembly run (checked under SpecRun).                *)

\* the method has been left, by its return or by an exception
RunEnded == run.pc \in {"done", "raised"}

\* the backend gave no output: tool error, timeout or nothing printed
NoOutput(outcome) == outcome.kind # "stdout" \/ outcome.text = <<>>

\* the ranges whose analyze_function call returned None
FailedRanges == {k \in 1..Len(run.funcs) : run.funcs[k].kind = "None"}

\* C14 as stated: when the backend yields no output for a range,
\* analyze_function returns None without raising, and in a run over a
\* sequence of candidate ranges every range after the failed one is still
\* analyzed (its analyze_function call returns a summary or None).
C14_AsStated ==
    RunEnded =>
        /\ \A k \in 1..Len(run.backend) :
              NoOutput(run.backend[k]) => k \in FailedRanges
        /\ \A k \in FailedRanges :
              \A m \in (k + 1)..Len(run.func_bounds) : m <= Len(run.funcs)

\* C15 as stated: each backend failure for a candidate range adds exactly
\* one to the failures the run has on record, so at the end of the run
\* their number equals the number of ranges whose backend call failed.
\* (The one record the run keeps of a failure is the message that
\* disassemble_range prints.)
C15_AsStated ==
    RunEnded =>
        Cardinality({n \in 1..Len(run.printed) : run.printed[n].range >= 1})
            = Cardinality(FailedRanges)

\* a line of a listing is well formed: an address field of hexadecimal
\* digits before the colon, and a raw-bytes field of an even number of
\* hexadecimal digits
WellFormed(line) ==
    LET parts == Split(Strip(line), 9) IN
    /\ Len(parts) >= 2
    /\ LET a == RStripColon(parts[1])
           r == DropSpaces(Strip(parts[2]))
       IN  /\ a # <<>>
           /\ \A k \in 1..Len(a) : HexVal(a[k]) >= 0
           /\ Len(r) % 2 = 0
           /\ \A k \in 1..Len(r) : HexVal(r[k]) >= 0

\* the well-formed lines of a standard output, in order
WellFormedLines(text) == SelectSeq(Split(text, 10), WellFormed)

\* C16 as stated: for every non-empty listing analyze_function does not
\* raise, whatever malformed lines the listing holds, and every well-formed
\* line of the listing is turned into an instruction record.
C16_AsStated ==
    \A k \in 1..Len(run.backend) :
        (/\ run.backend[k].kind = "stdout"
         /\ \E n \in 1..Len(Split(run.backend[k].text, 10)) :
               IsListingLine(Split(run.backend[k].text, 10)[n])) =>
            /\ k <= Len(run.funcs)
            /\ run.funcs[k].kind = "Function"
            /\ LET good == WellFormedLines(run.backend[k].text) IN
               /\ Len(run.funcs[k].instructions) = Len(good)
               /\ \A n \in 1..Len(good) :
                     run.funcs[k].instructions[n].mnemonic = Part(Split(Strip(good[n]), 9), 3)

-----------------------------------------------------------------------------
(* Concurrent workers, one per candidate range, each inside                *)
(* disassemble_range(start, end).  A worker is [range, pc, ino, read]:     *)
(*   pc    the next thing it does: "open" (line 83), "write" (line 84 and  *)
(*         the close of the file), "run" (line 97), "exists" (line 112),   *)
(*         "remove" (line 113); then "returned", or "raised" when an       *)
(*         exception left the method                                       *)
(*   ino   the file its open handle is on                                  *)
(*   read  what objdump found at the path when it ran                      *)

\* not run yet
NotRead == [done |-> FALSE, found |-> FALSE, bytes |-> <<>>]

\* RiscVDisassembler.__init__, and one worker started for every range of
\* find_function_boundaries()
InitWorkers ==
    /\ data \in RunImages
    /\ strings = _extract_strings(data)
    /\ min_length = 4
    /\ called = {}
    /\ functions = find_function_boundaries(data)
    /\ workers = [w \in 1..Len(functions) |->
                     [range |-> functions[w], pc |-> "open", ino |-> 0, read |-> NotRead]]
    /\ run = NoRun
    /\ temp_file = Absent
    /\ string_xrefs = <<>>
    /\ target_strings = <<>>
    /\ matches = <<>>
    /\ clusters = <<>>
    /\ results = <<>>
    /\ matched = <<>>
    /\ params = <<>>
    /\ config = <<>>
    /\ previous = NoCall

workersUnchanged == <<data, strings, string_xrefs, target_strings, matches, clusters,
                      results, matched, min_length, called, functions, run, params, config, previous>>

\* open(temp_file, 'wb'): the file is created, or cut to length 0
Open(w) ==
    /\ workers[w].pc = "open"
    /\ temp_file' = IF temp_file.exists THEN [temp_file EXCEPT !.content = <<>>]
                    ELSE [exists |-> TRUE, ino |-> temp_file.ino + 1, content |-> <<>>]
    /\ workers' = [workers EXCEPT ![w].pc = "write", ![w].ino = temp_file'.ino]
    /\ UNCHANGED workersUnchanged

\* bytes written at offset 0 over the content of a file
Overwrite(content, bytes) ==
    bytes \o SubSeq(content, Len(bytes) + 1, Len(content))

\* f.write(self.data[start:end]) and the close: the bytes go to the file the
\* handle is on, which the path names only if it was not removed since
Write(w) ==
    /\ workers[w].pc = "write"
    /\ temp_file' = IF temp_file.exists /\ temp_file.ino = workers[w].ino
                    THEN [temp_file EXCEPT !.content =
                             Overwrite(temp_file.content,
                                       Slice(data, workers[w].range.start, workers[w].range.end))]
                    ELSE temp_file
    /\ workers' = [workers EXCEPT ![w].pc = "run"]
    /\ UNCHANGED workersUnchanged

\* subprocess.run(cmd, ...): objdump reads the file the path names now
RunBackend(w) ==
    /\ workers[w].pc = "run"
    /\ workers' = [workers EXCEPT ![w].pc = "exists",
                                  ![w].read = [done |-> TRUE,
                                               found |-> temp_file.exists,
                                               bytes |-> temp_file.content]]
    /\ UNCHANGED <<workersUnchanged, temp_file>>

\* `if os.path.exists(temp_file)`
Exists(w) ==
    /\ workers[w].pc = "exists"
    /\ workers' = [workers EXCEPT ![w].pc = IF temp_file.exists THEN "remove" ELSE "returned"]
    /\ UNCHANGED <<workersUnchanged, temp_file>>

\* os.remove(temp_file): FileNotFoundError when the file is gone by now
Remove(w) ==
    /\ workers[w].pc = "remove"
    /\ temp_file' = [temp_file EXCEPT !.exists = FALSE, !.content = <<>>]
    /\ workers' = [workers EXCEPT ![w].pc = IF temp_file.exists THEN "returned" ELSE "raised"]
    /\ UNCHANGED workersUnchanged

NextWorkers ==
    \/ \E w \in 1..Len(workers) : Open(w)
    \/ \E w \in 1..Len(workers) : Write(w)
    \/ \E w \in 1..Len(workers) : RunBackend(w)
    \/ \E w \in 1..Len(workers) : Exists(w)
    \/ \E w \in 1..Len(workers) : Remove(w)

SpecWorkers == InitWorkers /\ [][NextWorkers]_vars

-----------------------------------------------------------------------------
(* Properties of concurrent workers (checked under SpecWorkers).           *)

\* C17 as stated: when candidate ranges are analyzed by concurrent workers,
\* every worker's backend call disassembles exactly the bytes of its own
\* range, and no worker's call fails where the call alone would not.
C17_AsStated ==
    \A w \in 1..Len(workers) :
        /\ workers[w].read.done =>
              /\ workers[w].read.found
              /\ workers[w].read.bytes =
                    Slice(data, workers[w].range.start, workers[w].range.end)
        /\ workers[w].pc # "raised"

-----------------------------------------------------------------------------
(* A1126ProDecompiler: parameter extraction.  The three patterns of        *)
(* extract_avalon10_parameters are matched over self.data as re.finditer   *)
(* matches them: leftmost first, the next search starting where the last   *)
(* match ended.                                                            *)

\* \s of a bytes pattern: [ \t\n\r\f\v]
IsReSpace(b) == b \in {9, 10, 11, 12, 13, 32}

\* \d of a bytes pattern: [0-9]
IsDigit(b) == 48 <= b /\ b <= 57

\* [a-z0-9-]
IsOptionChar(b) == (97 <= b /\ b <= 122) \/ IsDigit(b) \/ b = 45

\* . without DOTALL: any byte but "\n"
IsDot(b) == b # 10

\* the byte classes by name
InClass(class, b) ==
    CASE class = "space" -> IsReSpace(b)
      [] class = "digit" -> IsDigit(b)
      [] class = "option" -> IsOptionChar(b)
      [] class = "dot" -> IsDot(b)

\* a greedy repetition of a class from p: the offset after the longest run
SkipWhile(d, p, class) ==
    CHOOSE q \in p..d.len :
        /\ \A j \in p..(q - 1) : InClass(class, ByteAt(d, j))
        /\ q = d.len \/ ~ InClass(class, ByteAt(d, q))

\* the literal s lies at p
Lit(d, p, s) ==
    /\ p + Len(s) <= d.len
    /\ \A k \in 1..Len(s) : ByteAt(d, p + k - 1) = s[k]

\* the literal s lies at p, under re.IGNORECASE (s is lower case)
LitIgnoreCase(d, p, s) ==
    /\ p + Len(s) <= d.len
    /\ \A k \in 1..Len(s) : Lower(<<ByteAt(d, p + k - 1)>>)[1] = s[k]

NoMatch == [ok |-> FALSE]

\* rb'range\s*\[\s*(\d+)\s*,\s*(\d+)\s*\]' matched at p
RangeAt(d, p) ==
    LET open == SkipWhile(d, p + 5, "space")
        lo == SkipWhile(d, open + 1, "space")
        loEnd == SkipWhile(d, lo, "digit")
        comma == SkipWhile(d, loEnd, "space")
        hi == SkipWhile(d, comma + 1, "space")
        hiEnd == SkipWhile(d, hi, "digit")
        close == SkipWhile(d, hiEnd, "space")
    IN  IF /\ Lit(d, p, <<114, 97, 110, 103, 101>>)       \* "range"
           /\ Lit(d, open, <<91>>)                        \* "["
           /\ open + 1 <= d.len /\ loEnd > lo
           /\ Lit(d, comma, <<44>>)                       \* ","
           /\ hiEnd > hi
           /\ Lit(d, close, <<93>>)                       \* "]"
        THEN [ok |-> TRUE, end |-> close + 1,
              group1 |-> Slice(d, lo, loEnd), group2 |-> Slice(d, hi, hiEnd)]
        ELSE NoMatch

\* rb'--avalon10-([a-z0-9-]+)' matched at p
OptionAt(d, p) ==
    LET from == p + 11
        to == SkipWhile(d, from, "option")
    IN  \* "--avalon10-"
        IF Lit(d, p, <<45, 45, 97, 118, 97, 108, 111, 110, 49, 48, 45>>) /\ to > from
        THEN [ok |-> TRUE, end |-> to, group1 |-> Slice(d, from, to)]
        ELSE NoMatch

\* rb'voltage.level.*?(\d+)' with re.IGNORECASE matched at p: the lazy .*?
\* stops at the first digit after "level" that no "\n" comes before
VoltageAt(d, p) ==
    LET from == p + 13
        stop == SkipWhile(d, from, "dot")
        digits == {q \in from..(stop - 1) : IsDigit(ByteAt(d, q))}
    IN  IF /\ LitIgnoreCase(d, p, <<118, 111, 108, 116, 97, 103, 101>>)   \* "voltage"
           /\ p + 8 <= d.len /\ IsDot(ByteAt(d, p + 7))
           /\ LitIgnoreCase(d, p + 8, <<108, 101, 118, 101, 108>>)        \* "level"
           /\ digits # {}
        THEN LET q == CHOOSE q \in digits : \A r \in digits : q <= r IN
             [ok |-> TRUE, end |-> SkipWhile(d, q, "digit"),
              group1 |-> Slice(d, q, SkipWhile(d, q, "digit"))]
        ELSE NoMatch

MatchAt(pattern, d, p) ==
    CASE pattern = "range" -> RangeAt(d, p)
      [] pattern = "option" -> OptionAt(d, p)
      [] pattern = "voltage" -> VoltageAt(d, p)

\* re.finditer(pattern, self.data) from offset pos on: the matches in order
RECURSIVE FindIter(_, _, _)
FindIter(pattern, d, pos) ==
    LET at == {p \in pos..(d.len - 1) : MatchAt(pattern, d, p).ok} IN
    IF at = {} THEN <<>>
    ELSE LET p == CHOOSE p \in at : \A q \in at : p <= q
             m == MatchAt(pattern, d, p)
         IN  <<m>> \o FindIter(pattern, d, m.end)

\* int(b) for a run of ASCII digits
RECURSIVE int(_)
int(digits) ==
    IF digits = <<>> THEN 0
    ELSE 10 * int(SubSeq(digits, 1, Len(digits) - 1)) + (digits[Len(digits)] - 48)

\* `if 25 <= low <= 100 and 500 <= high <= 1500`
\* (variant: 25 < low)
InBoundsMutant(low, high) == 25 < low /\ low <= 100 /\ 500 <= high /\ high <= 1500

InBounds(low, high) == 25 <= low /\ low <= 100 /\ 500 <= high /\ high <= 1500

\* the loop over the range matches from match n on
RECURSIVE FrequencyLoop(_, _)
FrequencyLoop(ms, n) ==
    IF n > Len(ms) THEN <<>>
    ELSE (IF InBounds(int(ms[n].group1), int(ms[n].group2))
          THEN << [min |-> int(ms[n].group1), max |-> int(ms[n].group2)] >>
          ELSE <<>>)
         \o FrequencyLoop(ms, n + 1)

\* the loop over the option matches from match n on:
\* `if opt not in params['command_options']: ...append(opt)`
RECURSIVE OptionLoop(_, _, _)
OptionLoop(opts, ms, n) ==
    IF n > Len(ms) THEN opts
    ELSE OptionLoop(IF Decode(ms[n].group1) \in Elems(opts) THEN opts
                    ELSE Append(opts, Decode(ms[n].group1)),
                    ms, n + 1)

\* the loop over the voltage matches from match n on: `if 0 <= v <= 100`
RECURSIVE VoltageLoop(_, _)
VoltageLoop(ms, n) ==
    IF n > Len(ms) THEN <<>>
    ELSE (IF 0 <= int(ms[n].group1) /\ int(ms[n].group1) <= 100
          THEN <<int(ms[n].group1)>> ELSE <<>>)
         \o VoltageLoop(ms, n + 1)

\* A1126ProDecompiler.extract_avalon10_parameters()
extract_avalon10_parameters(d) ==
    [frequency_options |-> FrequencyLoop(FindIter("range", d, 0), 1),
     voltage_levels |-> VoltageLoop(FindIter("voltage", d, 0), 1),
     temperature_targets |-> <<>>,
     fan_speeds |-> <<>>,
     command_options |-> OptionLoop(<<>>, FindIter("option", d, 0), 1)]

-----------------------------------------------------------------------------
(* A1126ProDecompiler over images of configuration text.                   *)

MaxTokens == 3        \* most pieces of text in an enumerated image

\* the pieces of text the enumerated images are made of
ParameterTokens ==
    {
      \* "range [25, 800] "
      <<114, 97, 110, 103, 101, 32, 91, 50, 53, 44, 32, 56, 48, 48,
        93, 32>>,
      \* "range [3, 9000] "
      <<114, 97, 110, 103, 101, 32, 91, 51, 44, 32, 57, 48, 48, 48,
        93, 32>>,
      \* "--avalon10-freq "
      <<45, 45, 97, 118, 97, 108, 111, 110, 49, 48, 45, 102, 114, 101,
        113, 32>>,
      \* "--avalon10-fan=50 "
      <<45, 45, 97, 118, 97, 108, 111, 110, 49, 48, 45, 102, 97, 110,
        61, 53, 48, 32>>,
      \* "voltage level "
      <<118, 111, 108, 116, 97, 103, 101, 32, 108, 101, 118, 101, 108,
        32>>,
      \* "Voltage_Level=101\n"
      <<86, 111, 108, 116, 97, 103, 101, 95, 76, 101, 118, 101, 108,
        61, 49, 48, 49, 10>>,
      \* "\n"
      <<10>>,
      \* "7 "
      <<55, 32>> }

\* the low and high values of the range texts: the limits of the accepted
\* domain, their neighbours, and the values 3, 800 and 9000
Lows == {3, 24, 25, 100, 101}

Highs == {499, 500, 800, 1500, 1501, 9000}

\* str(n) for n >= 0, as bytes
RECURSIVE DecDigits(_)
DecDigits(n) ==
    IF n < 10 THEN <<48 + n>> ELSE Append(DecDigits(n \div 10), 48 + (n % 10))

\* "range [low, high]", or "range[low,high]" when not spaced
RangeText(low, high, spaced) ==
    <<114, 97, 110, 103, 101>> \o (IF spaced THEN <<32>> ELSE <<>>) \o <<91>>
    \o DecDigits(low) \o <<44>> \o (IF spaced THEN <<32>> ELSE <<>>)
    \o DecDigits(high) \o <<93>>

RangeImages ==
    { Dense(RangeText(low, high, spaced)) :
        low \in Lows, high \in Highs, spaced \in BOOLEAN }

TokenImages ==
    UNION { { Dense(Flatten(tokens)) : tokens \in [1..n -> ParameterTokens] }
            : n \in 0..MaxTokens }

ParameterImages == RangeImages \cup TokenImages

\* A1126ProDecompiler.__init__
InitParameters ==
    /\ data \in ParameterImages
    /\ strings = _extract_all_strings(data)
    /\ string_xrefs = _build_string_xrefs(strings)
    /\ min_length = 4
    /\ called = {}
    /\ target_strings = <<>>
    /\ matches = <<>>
    /\ clusters = <<>>
    /\ results = <<>>
    /\ matched = <<>>
    /\ functions = <<>>
    /\ run = NoRun
    /\ temp_file = Absent
    /\ workers = <<>>
    /\ params = <<>>
    /\ config = <<>>
    /\ previous = NoCall

\* a call of extract_avalon10_parameters()
ExtractAvalon10Parameters ==
    /\ params' = extract_avalon10_parameters(data)
    /\ called' = called \cup {"extract_avalon10_parameters"}
    /\ UNCHANGED <<data, strings, string_xrefs, target_strings, matches, clusters,
                   results, matched, min_length, disasmVars, config, previous>>

NextParameters == ExtractAvalon10Parameters

SpecParameters == InitParameters /\ [][NextParameters]_vars

-----------------------------------------------------------------------------
(* Properties of parameter extraction (checked under SpecParameters).      *)

ParamsReturned == "extract_avalon10_parameters" \in called

\* white space between the parts of a range text
Blank(b) == b \in {9, 10, 11, 12, 13, 32}

\* s without the white space at its ends
Trim(s) ==
    LET keep == {k \in 1..Len(s) : ~ Blank(s[k])} IN
    IF keep = {} THEN <<>>
    ELSE SubSeq(s, CHOOSE k \in keep : \A j \in keep : k <= j,
                   CHOOSE k \in keep : \A j \in keep : k >= j)

\* a decimal numeral, and the same numeral without leading zeros
Numeral(s) == s # <<>> /\ \A k \in 1..Len(s) : 48 <= s[k] /\ s[k] <= 57

RECURSIVE Canonical(_)
Canonical(s) == IF Len(s) > 1 /\ s[1] = 48 THEN Canonical(SubSeq(s, 2, Len(s))) ELSE s

\* the first offset from p on that holds byte b (data.len when none does)
FirstByte(b, p) ==
    CHOOSE j \in p..data.len :
        /\ j = data.len \/ ByteAt(data, j) = b
        /\ \A i \in p..(j - 1) : ByteAt(data, i) # b

\* the text "range [low, high]" begins at p: the word, an opening bracket,
\* a numeral, a comma, a numeral and a closing bracket, with nothing but
\* white space between them
LowText(p) == Trim(Slice(data, FirstByte(91, p + 5) + 1, FirstByte(44, FirstByte(91, p + 5) + 1)))

HighText(p) ==
    LET comma == FirstByte(44, FirstByte(91, p + 5) + 1) IN
    Trim(Slice(data, comma + 1, FirstByte(93, comma + 1)))

PairAt(p) ==
    LET open == FirstByte(91, p + 5)
        comma == FirstByte(44, open + 1)
        close == FirstByte(93, comma + 1)
    IN  /\ p + 5 <= data.len
        /\ Slice(data, p, p + 5) = <<114, 97, 110, 103, 101>>
        /\ close < data.len
        /\ Trim(Slice(data, p + 5, open)) = <<>>
        /\ Numeral(LowText(p))
        /\ Numeral(HighText(p))

\* the numeral is that of a number from lo to hi
Within(s, lo, hi) == \E v \in lo..hi : DecDigits(v) = Canonical(s)

\* the offsets of the range texts, and of those within the accepted domain
Pairs == {p \in 0..(data.len - 1) : PairAt(p)}

Accepted == {p \in Pairs : Within(LowText(p), 25, 100) /\ Within(HighText(p), 500, 1500)}

\* C18: a textual pair "range [low, high]" is retained in frequency_options
\* if and only if 25 <= low <= 100 and 500 <= high <= 1500: the entries of
\* frequency_options are the pairs within the domain, in the order of the
\* text, each with its two values ([25, 800] is retained, [3, 9000] is not).
C18_RangeRule ==
    ParamsReturned =>
        /\ Len(params.frequency_options) = Cardinality(Accepted)
        /\ \A p \in Accepted :
              LET e == params.frequency_options[Cardinality({q \in Accepted : q <= p})] IN
              /\ DecDigits(e.min) = Canonical(LowText(p))
              /\ DecDigits(e.max) = Canonical(HighText(p))
        /\ \A n \in 1..Len(params.frequency_options) :
              /\ 25 <= params.frequency_options[n].min
              /\ params.frequency_options[n].min <= 100
              /\ 500 <= params.frequency_options[n].max
              /\ params.frequency_options[n].max <= 1500

\* an image with the texts "range [25, 800]" and "range [3, 9000]": the
\* first was retained, the second was not
C18_Witness ==
    /\ ParamsReturned
    /\ params.frequency_options = << [min |-> 25, max |-> 800] >>
    /\ \E p \in Pairs \ Accepted :
          LowText(p) = <<51>> /\ HighText(p) = <<57, 48, 48, 48>>

\* no value occurs twice in the list
NoDuplicates(seq) == \A i, j \in 1..Len(seq) : i # j => seq[i] # seq[j]

\* C19 as stated: in the mapping extract_avalon10_parameters returns, no
\* category list holds the same value twice: not command_options, not
\* frequency_options and not voltage_levels, however often the same text
\* occurs in the buffer.
C19_AsStated ==
    ParamsReturned =>
        /\ NoDuplicates(params.command_options)
        /\ NoDuplicates(params.frequency_options)
        /\ NoDuplicates(params.voltage_levels)

-----------------------------------------------------------------------------
(* One analysis session: an A1126ProDecompiler and a RiscVDisassembler     *)
(* constructed over the same firmware image.  Both constructors extract    *)
(* the strings with the same loop (`32 <= b < 127`, `>= 4`, ascii), so     *)
(* `strings` is the field of either object.                                *)

\* what a session image begins with: nothing, or a text run and the byte
\* that ends it
SessionTexts ==
    { <<>>,
      \* "avalon10_init\0"
      <<97, 118, 97, 108, 111, 110, 49, 48, 95, 105, 110, 105, 116, 0>>,
      \* "Device\0"
      <<68, 101, 118, 105, 99, 101, 0>> }

\* the 2-byte words of a session image: `addi sp,sp,-32`, filler, `ret`
SessionWords == { <<1, 17>>, <<0, 0>>, EpiloguePattern }

\* the most 2-byte words after the text of a session image
MaxSessionWords == 3

\* a text, then 2-byte words, then `tail` filler bytes
SessionImages ==
    UNION { { Dense(text \o Flatten(words) \o [k \in 1..tail |-> 0]) :
                text \in SessionTexts, words \in [1..n -> SessionWords], tail \in {0, 1} }
            : n \in 0..MaxSessionWords }

\* A1126ProDecompiler.__init__ and RiscVDisassembler.__init__
InitSession ==
    /\ data \in SessionImages
    /\ strings = _extract_all_strings(data)
    /\ strings = _extract_strings(data)
    /\ string_xrefs = _build_string_xrefs(strings)
    /\ min_length = 4
    /\ called = {}
    /\ target_strings = <<>>
    /\ matches = <<>>
    /\ clusters = <<>>
    /\ results = <<>>
    /\ matched = <<>>
    /\ functions = <<>>
    /\ run = NoRun
    /\ temp_file = Absent
    /\ workers = <<>>
    /\ params = <<>>
    /\ config = <<>>
    /\ previous = NoCall

NextSession == FindFunctionByStrings \/ MatchKnownFunctions \/ FindFunctionBoundaries

SpecSession == InitSession /\ [][NextSession]_vars

-----------------------------------------------------------------------------
(* Properties of a session (checked under SpecSession).                    *)

\* an offset into the image
InBuffer(offset) == 0 <= offset /\ offset < data.len

\* C20: every offset produced by the analysis is strictly less than the
\* buffer length: each string record's start offset, each offset of the
\* cross-reference index, each signature match candidate offset, and both
\* the start and the end offset of each candidate function range.
C20_Offsets ==
    /\ \A n \in 1..Len(strings) : InBuffer(strings[n].key)
    /\ \A e \in 1..Len(string_xrefs) :
          \A k \in 1..Len(string_xrefs[e].val) : InBuffer(string_xrefs[e].val[k])
    /\ \A i \in 1..Len(results) : InBuffer(results[i].addr)
    /\ \A i \in 1..Len(matched) : InBuffer(matched[i].address)
    /\ \A k \in 1..Len(functions) :
          InBuffer(functions[k].start) /\ InBuffer(functions[k].end)

\* all three methods have returned something, and a candidate range ends at
\* the last byte of the image
C20_Witness ==
    /\ strings # <<>>
    /\ string_xrefs # <<>>
    /\ results # <<>>
    /\ matched # <<>>
    /\ \E k \in 1..Len(functions) : functions[k].end = data.len - 1

-----------------------------------------------------------------------------
(* Further properties of the boundary detector (checked under              *)
(* SpecDisassembler).                                                      *)

\* C21 (as stated): after a candidate range is emitted, scanning resumes
\* after that range's epilogue end: each candidate's start is at or after
\* the previous candidate's end.
C21_AsStated ==
    BoundariesReturned =>
        \A k \in 1..(Len(functions) - 1) : functions[k + 1].start >= functions[k].end

\* what does hold of the outer loop: the starts ascend
C21_StartsAscend ==
    BoundariesReturned =>
        \A k \in 1..(Len(functions) - 1) : functions[k + 1].start > functions[k].start

-----------------------------------------------------------------------------
(* Further properties of the signature matcher (checked under Spec).       *)

\* C22 (as stated): every cluster is a group of offsets mutually within the
\* proximity window: any two offsets of one cluster, not only consecutive
\* ones, differ by no more than 4096 bytes.
C22_AsStated ==
    FindReturned =>
        \A c \in 1..Len(clusters) :
            \A a, b \in 1..Len(clusters[c]) :
                clusters[c][a] - clusters[c][b] <= ProximityWindow

\* the characteristic substrings that have a hit in the cluster: a string of
\* the index contains the substring and has an offset in the cluster
Contributing(cluster) ==
    { target_strings[n] : n \in
        { n \in 1..Len(target_strings) :
            \E e \in 1..Len(string_xrefs) :
                /\ KeyHit(target_strings[n], string_xrefs[e].key)
                /\ Elems(string_xrefs[e].val) \cap Elems(cluster) # {} } }

\* C23 (as stated): a match's confidence reflects the number of distinct
\* characteristic substrings that contributed a hit to the cluster: it is
\* never more than (contributing substrings / total substrings), and 1.0 is
\* reached only when every substring has a hit in the cluster.
C23_AsStated ==
    (FindReturned /\ Len(target_strings) >= 1) =>
        \A i \in 1..Len(results) :
            LET cl == ClusterOf(results[i].addr)
                conf == results[i].confidence
                share == Frac(Cardinality(Contributing(cl)), Len(target_strings))
            IN  /\ ~ RatLT(share, conf)
                /\ RatEQ(conf, Frac(1, 1)) =>
                      \A n \in 1..Len(target_strings) : target_strings[n] \in Contributing(cl)

-----------------------------------------------------------------------------
(* Properties of the parsed listings of a run (checked under SpecRun).     *)

\* the Function records the run's analyze_function calls returned
Parsed == {k \in 1..Len(run.funcs) : run.funcs[k].kind = "Function"}

\* The first hexadecimal literal of an operand text: the leftmost "0x"
\* followed by a hexadecimal digit of either case, and all the digits after
\* it.  Its value is kept as a parsed integer is, in digits.
Literal(s) ==
    LET at == {k \in 1..(Len(s) - 2) :
                  s[k] = 48 /\ s[k + 1] = 120 /\ HexVal(s[k + 2]) >= 0} IN
    IF at = {} THEN [found |-> FALSE]
    ELSE LET k == CHOOSE k \in at : \A j \in at : k <= j
             e == CHOOSE e \in (k + 2)..Len(s) :
                     /\ \A j \in (k + 2)..e : HexVal(s[j]) >= 0
                     /\ e = Len(s) \/ HexVal(s[e + 1]) < 0
         IN  [found |-> TRUE,
              value |-> Normal([j \in 1..(e - k - 1) |-> HexVal(s[k + 1 + j])])]

\* an instruction of the address-materialization class (upper-immediate
\* load or PC-relative address), of the call/jump class
IsAddressClass(ins) == Contains(Lui, ins.mnemonic) \/ Contains(Auipc, ins.mnemonic)

IsCallClass(ins) == Contains(Jal, ins.mnemonic) \/ Contains(Call, ins.mnemonic)

\* the start offsets of the extracted strings, as parsed integers
StringStarts == {HexDigits(strings[e].key) : e \in 1..Len(strings)}

\* the values of the first literals of the instructions satisfying Class,
\* in listing order
RECURSIVE Literals(_, _, _)
Literals(instructions, Class(_), n) ==
    IF n > Len(instructions) THEN <<>>
    ELSE (IF Class(instructions[n]) /\ Literal(instructions[n].operands).found
          THEN <<Literal(instructions[n].operands).value>> ELSE <<>>)
         \o Literals(instructions, Class, n + 1)

\* sub is seq with some elements left out
RECURSIVE IsSubsequence(_, _)
IsSubsequence(sub, seq) ==
    IF sub = <<>> THEN TRUE
    ELSE IF seq = <<>> THEN FALSE
    ELSE IF sub[1] = seq[1] THEN IsSubsequence(Tail(sub), Tail(seq))
    ELSE IsSubsequence(sub, Tail(seq))

\* C24 (as stated): for every parsed listing, data_references contains only
\* start offsets of extracted strings, and an address is added only from an
\* address-materialization instruction whose first hexadecimal literal is
\* that address; instructions of other classes never add a data reference.
C24_AsStated ==
    \A k \in Parsed :
        /\ \A n \in 1..Len(run.funcs[k].strings_refs) :
              run.funcs[k].strings_refs[n] \in StringStarts
        /\ IsSubsequence(run.funcs[k].strings_refs,
                         Literals(run.funcs[k].instructions, IsAddressClass, 1))

\* C24 apart from the reading of the literal: every data reference is the
\* start offset of an extracted string, and there are no more of them than
\* address-materialization instructions with a literal
C24_StringStartsOnly ==
    \A k \in Parsed :
        /\ \A n \in 1..Len(run.funcs[k].strings_refs) :
              run.funcs[k].strings_refs[n] \in StringStarts
        /\ Len(run.funcs[k].strings_refs)
              <= Len(Literals(run.funcs[k].instructions, IsAddressClass, 1))

\* a listing with a data reference has been parsed
C24_Reached == \E k \in Parsed : run.funcs[k].strings_refs # <<>>

\* C25 (as stated): for every call/jump-class instruction whose operand text
\* contains a hexadecimal literal, the full value of the first such literal,
\* whatever the case of its digits, is added to call_targets; an instruction
\* outside the class, or one with no literal in its operands, adds nothing.
C25_AsStated ==
    \A k \in Parsed :
        run.funcs[k].calls = Literals(run.funcs[k].instructions, IsCallClass, 1)

-----------------------------------------------------------------------------
(* K210FirmwareAnalyzer: configuration extraction.  config = [options,     *)
(* defaults]: `options` is list(set(options)), whose order is that of a    *)
(* set's iteration and is kept as the set; `defaults` is the dict          *)
(* category -> value.                                                      *)

\* [:\s] of the bytes pattern
IsSeparator(b) == b = 58 \/ IsReSpace(b)

\* the offset after the longest run of separators from p
SkipSeparators(d, p) ==
    CHOOSE q \in p..d.len :
        /\ \A j \in p..(q - 1) : IsSeparator(ByteAt(d, j))
        /\ q = d.len \/ ~ IsSeparator(ByteAt(d, q))

\* the match of rb'default[:\s]+(\d+)' with re.IGNORECASE at p, given where
\* the separators and the digits end
DefaultMatch(d, p, sepEnd, digitEnd) ==
    IF /\ LitIgnoreCase(d, p, <<100, 101, 102, 97, 117, 108, 116>>)    \* "default"
       /\ sepEnd > p + 7
       /\ digitEnd > sepEnd
    THEN [ok |-> TRUE, start |-> p, end |-> digitEnd, group1 |-> Slice(d, sepEnd, digitEnd)]
    ELSE NoMatch

DefaultDigits(d, p, sepEnd) == DefaultMatch(d, p, sepEnd, SkipWhile(d, sepEnd, "digit"))

DefaultAt(d, p) == DefaultDigits(d, p, SkipSeparators(d, p + 7))

\* re.finditer(default_pattern, self.data, re.IGNORECASE) from pos on
RECURSIVE DefaultIter(_, _)
DefaultIter(d, pos) ==
    LET at == {p \in pos..(d.len - 1) : DefaultAt(d, p).ok} IN
    IF at = {} THEN <<>>
    ELSE <<DefaultAt(d, CHOOSE p \in at : \A q \in at : p <= q)>>
         \o DefaultIter(d, DefaultAt(d, CHOOSE p \in at : \A q \in at : p <= q).end)

LookBack == 50       \* the 50 of `match.start() - 50`

\* bytes.decode('ascii', errors='ignore'): the bytes of 128 and more are
\* left out
DecodeIgnore(bytes) == SelectSeq(bytes, LAMBDA b : b < 128)

\* self.data[start:match.start()].decode('ascii', errors='ignore')
Context(d, at) ==
    DecodeIgnore(Slice(d, IF at - LookBack > 0 THEN at - LookBack ELSE 0, at))

\* "freq", "volt", "temp", "fan"
Freq == <<102, 114, 101, 113>>

Volt == <<118, 111, 108, 116>>

Temp == <<116, 101, 109, 112>>

Fan == <<102, 97, 110>>

\* the if/elif chain over context.lower(); "" when no branch is taken
\* (variant: the fan branch comes first)
ClassifyMutant(lower) ==
    IF Contains(Fan, lower) THEN "fan"
    ELSE IF Contains(Freq, lower) THEN "frequency"
    ELSE IF Contains(Volt, lower) THEN "voltage"
    ELSE IF Contains(Temp, lower) THEN "temperature"
    ELSE ""

Classify(lower) ==
    IF Contains(Freq, lower) THEN "frequency"
    ELSE IF Contains(Volt, lower) THEN "voltage"
    ELSE IF Contains(Temp, lower) THEN "temperature"
    ELSE IF Contains(Fan, lower) THEN "fan"
    ELSE ""

\* one iteration of the loop over the default matches
DefaultStep(defaults, category, value) ==
    IF category = "" THEN defaults ELSE DictSet(defaults, category, value)

\* the loop over the default matches from match n on
RECURSIVE DefaultLoop(_, _, _, _)
DefaultLoop(defaults, d, ms, n) ==
    IF n > Len(ms) THEN defaults
    ELSE DefaultLoop(DefaultStep(defaults, Classify(Lower(Context(d, ms[n].start))),
                                 int(ms[n].group1)),
                     d, ms, n + 1)

\* the options of the option matches
OptionSet(ms) == {Decode(ms[n].group1) : n \in 1..Len(ms)}

\* K210FirmwareAnalyzer.find_avalon10_config()
find_avalon10_config(d) ==
    [options |-> OptionSet(FindIter("option", d, 0)),
     defaults |-> DefaultLoop(<<>>, d, DefaultIter(d, 0), 1)]

-----------------------------------------------------------------------------
(* K210FirmwareAnalyzer over images of configuration text.                 *)

\* the pieces of text the enumerated images are made of
ConfigTokens ==
    {
      \* "freq "
      <<102, 114, 101, 113, 32>>,
      \* "Volt "
      <<86, 111, 108, 116, 32>>,
      \* "temp "
      <<116, 101, 109, 112, 32>>,
      \* "FAN "
      <<70, 65, 78, 32>>,
      \* b"fr\xc3eq ": "freq " once the byte 0xc3 is ignored
      <<102, 114, 195, 101, 113, 32>>,
      \* "default: 5 "
      <<100, 101, 102, 97, 117, 108, 116, 58, 32, 53, 32>>,
      \* "Default 7 "
      <<68, 101, 102, 97, 117, 108, 116, 32, 55, 32>>,
      \* "--avalon10-freq "
      <<45, 45, 97, 118, 97, 108, 111, 110, 49, 48, 45, 102, 114, 101,
        113, 32>>,
      \* 45 dots: a keyword before them is inside the next window
      [k \in 1..45 |-> 46],
      \* 46 dots: the first letter of a keyword before them is outside it
      [k \in 1..46 |-> 46] }

ConfigTokenImages ==
    UNION { { Dense(Flatten(tokens)) : tokens \in [1..n -> ConfigTokens] }
            : n \in 0..MaxTokens }

\* "Volt default: 5 ", 46 dots, "FAN freq default: 5 Default 7 ", 46 dots,
\* "default: 5 "
ConfigExampleImage ==
    Dense(<<86, 111, 108, 116, 32>>
          \o <<100, 101, 102, 97, 117, 108, 116, 58, 32, 53, 32>>
          \o [k \in 1..46 |-> 46]
          \o <<70, 65, 78, 32>> \o <<102, 114, 101, 113, 32>>
          \o <<100, 101, 102, 97, 117, 108, 116, 58, 32, 53, 32>>
          \o <<68, 101, 102, 97, 117, 108, 116, 32, 55, 32>>
          \o [k \in 1..46 |-> 46]
          \o <<100, 101, 102, 97, 117, 108, 116, 58, 32, 53, 32>>)

ConfigImages == ConfigTokenImages \cup {ConfigExampleImage}

\* K210FirmwareAnalyzer.__init__: self.strings = {}
InitConfig ==
    /\ data \in ConfigImages
    /\ strings = <<>>
    /\ min_length = 8
    /\ called = {}
    /\ string_xrefs = <<>>
    /\ target_strings = <<>>
    /\ matches = <<>>
    /\ clusters = <<>>
    /\ results = <<>>
    /\ matched = <<>>
    /\ functions = <<>>
    /\ run = NoRun
    /\ temp_file = Absent
    /\ workers = <<>>
    /\ params = <<>>
    /\ config = <<>>
    /\ previous = NoCall

FindAvalon10Config ==
    /\ config' = find_avalon10_config(data)
    /\ called' = called \cup {"find_avalon10_config"}
    /\ UNCHANGED <<data, strings, string_xrefs, target_strings, matches, clusters,
                   results, matched, min_length, disasmVars, params, previous>>

NextConfig == FindAvalon10Config

SpecConfig == InitConfig /\ [][NextConfig]_vars

-----------------------------------------------------------------------------
(* Properties of configuration extraction (checked under SpecConfig).      *)

ConfigReturned == "find_avalon10_config" \in called

\* the keywords in the order of their precedence, each with its category
Keywords ==
    << [word |-> Freq, category |-> "frequency"],
       [word |-> Volt, category |-> "voltage"],
       [word |-> Temp, category |-> "temperature"],
       [word |-> Fan, category |-> "fan"] >>

\* the keywords (by rank) in the text of the 50-byte window before `start`
InWindow(start) ==
    {r \in 1..Len(Keywords) : Contains(Keywords[r].word, Lower(Context(data, start)))}

\* the rank of the category a match with these keywords in its window falls
\* in: that of the keyword of highest precedence, 0 without a keyword
Rank(ranks) == IF ranks = {} THEN 0 ELSE CHOOSE r \in ranks : \A q \in ranks : r <= q

\* the last of a non-empty set of matches
Last(ns) == CHOOSE n \in ns : \A m \in ns : m <= n

\* C26: each 'default <number>' match is classified by the text of the
\* 50-byte window before it into at most one category, with precedence
\* frequency, voltage, temperature, fan; a match with no keyword in its
\* window is not recorded; of several matches in one category the value of
\* the last one in scan order is reported.
C26_Defaults ==
    ConfigReturned =>
        LET ms == DefaultIter(data, 0)       \* the matches, in scan order
            rank == [n \in 1..Len(ms) |-> Rank(InWindow(ms[n].start))]
        IN  /\ \A e \in 1..Len(config.defaults) :
                  \E r \in 1..Len(Keywords) : config.defaults[e].key = Keywords[r].category
            /\ \A r \in 1..Len(Keywords) :
                  LET ns == {n \in 1..Len(ms) : rank[n] = r} IN
                  IF ns = {}
                  THEN ~ DictHas(config.defaults, Keywords[r].category)
                  ELSE /\ DictHas(config.defaults, Keywords[r].category)
                       /\ DictGet(config.defaults, Keywords[r].category)
                             = int(ms[Last(ns)].group1)

\* two categories are reported; one of them had two matches with different
\* values, in windows that hold a keyword of lower precedence as well; and
\* one match had no keyword in its window
C26_Witness ==
    /\ ConfigReturned
    /\ Len(config.defaults) >= 2
    /\ LET ms == DefaultIter(data, 0) IN
       /\ \E n, m \in 1..Len(ms) :
             /\ n < m
             /\ Rank(InWindow(ms[n].start)) = Rank(InWindow(ms[m].start))
             /\ Rank(InWindow(ms[n].start)) > 0
             /\ ms[n].group1 # ms[m].group1
             /\ \E q \in InWindow(ms[m].start) : q > Rank(InWindow(ms[m].start))
       /\ \E n \in 1..Len(ms) : InWindow(ms[n].start) = {}

-----------------------------------------------------------------------------
(* Properties of repeated string extraction (checked under SpecAnalyzer).  *)

\* C27: after any sequence of extract_strings calls with arbitrary
\* min_length values on the same analyzer, the stored string set is exactly
\* the result of the last call alone (no record of an earlier extraction
\* survives), and no call changes the byte buffer.
C27_LastCallAlone ==
    /\ [](ExtractReturned => strings = extract_strings(data, min_length))
    /\ [][data' = data]_vars

\* a second call has returned, and a record with text that the call before
\* had stored is not among the stored records
C27_Witness ==
    /\ previous.called
    /\ \E n \in 1..Len(previous.strings) :
          /\ previous.strings[n].val # <<>>
          /\ previous.strings[n] \notin Elems(strings)

\* C28 (as stated): extraction is monotone in min_length: if m1 <= m2, the
\* records extracted with min_length m2 are exactly the records extracted
\* with min_length m1 whose text length is >= m2 (same offsets, same text).
\* Here m1 is the argument of the call before the last and m2 that of the
\* last.
C28_AsStated ==
    (previous.called /\ previous.min_length <= min_length) =>
        Elems(strings)
            = {e \in Elems(previous.strings) : Len(e.val) >= min_length}

\* C28 for m1 >= 1
C28_FromOne ==
    (previous.called /\ 1 <= previous.min_length /\ previous.min_length <= min_length) =>
        Elems(strings)
            = {e \in Elems(previous.strings) : Len(e.val) >= min_length}

====
